---- MODULE Spec2Model ----
(***************************************************************************)
(* Model of the GasDetect firmware (src/src/main.cpp): the cooperative     *)
(* loop() with its buzzer step, calibration session, 1 Hz sensor tick,     *)
(* threshold/alert machine and LED indicator, plus the sample buffer       *)
(* helpers addGasReading and calculateMedian.                              *)
(*                                                                         *)
(* Time is the value of millis(), an unsigned counter.  Sensor readings    *)
(* are the integer results of analogRead held in float variables; they     *)
(* stay integral, so they are modelled as integers.  calculateMedian can   *)
(* produce a half, so it returns its result in half units (twice the       *)
(* float value).                                                           *)
(***************************************************************************)
EXTENDS Integers, Sequences, FiniteSets, TLC

VARIABLES
    now,                  \* millis() at the most recent loop() iteration
    systemStartTime,
    config,               \* the Config struct; mqttConfigured is !mqttConfig.isEmpty()
    wifi,                 \* WiFi.status() == WL_CONNECTED
    mqtt,                 \* mqttClient.connected()
    breachStart, underThresholdStart, lastNotificationTime,
    lastReadingTime, lastPublishTime,
    alertState,
    buzzerActive, buzzerStartTime, buzzerDuration, lastBuzzerToggle, buzzerPin,
    lastWifiBeepTime,
    currentLedState, priorLedState, ledOn, lastLedToggle,
    ledBlinkInterval, currentLedInterval, ledColor,
    gasDataBuffer,
    calibrationRunning, calibrationStartTime, calibrationReadings,
    lastCalibrationLedToggle, calibrationLedState,
    telnetClient,         \* the accepted Telnet connection, 0 for an empty handle
    telnetPending,        \* connections waiting in telnetServer, oldest first
    telnetLive,           \* accepted connections that are still open
    configFile,           \* /config.json
    apModeTimedOut,       \* offline mode: autoConnect gave up
    lastWifiRetryTime,
    step,                 \* observation of the last loop() iteration (history)
    hist                  \* observations accumulated over iterations (history)

progVars ==
    << now, systemStartTime, config, wifi, mqtt,
       breachStart, underThresholdStart, lastNotificationTime,
       lastReadingTime, lastPublishTime, alertState,
       buzzerActive, buzzerStartTime, buzzerDuration, lastBuzzerToggle, buzzerPin,
       lastWifiBeepTime,
       currentLedState, priorLedState, ledOn, lastLedToggle,
       ledBlinkInterval, currentLedInterval, ledColor,
       gasDataBuffer,
       calibrationRunning, calibrationStartTime, calibrationReadings,
       lastCalibrationLedToggle, calibrationLedState,
       telnetClient, telnetPending, telnetLive, configFile,
       apModeTimedOut, lastWifiRetryTime >>

vars == << progVars, step, hist >>

----------------------------------------------------------------------------
(* Bounds of the exploration *)

\* width in bits of the millis() counter (32 on the device)
W == 20

\* number of entries of the sample buffer (15 on the device)
BUFFER_SIZE == 3

\* time explored after the end of the warm-up, in ms, by the specification
\* of the threshold machine, of the notification cooldown, of the indicator
AlertHorizon == 8000
\* number of /save requests explored
MaxSaves == 1
\* number of addGasReading calls explored on the sample buffer alone
MaxInserts == 5
CooldownHorizon == 36000
LedHorizon == 6000
TwinHorizon == 5000
AdjustHorizon == 4000
\* time explored after the end of a calibration session, in ms
CalibrationHorizon == 4000
SessionHorizon == 3000
SamplingHorizon == 4000
LiveFree == 4096
BeepHorizon == 1200
ReminderHorizon == 61500
OfflineHorizon == 243000
ZeroHorizon == 3000
RecalHorizon == 4000
HushHorizon == 6000
\* number of restarts explored, and of start-ups in a row cut short
MaxRestarts == 1
MaxInterrupted == 3
BootHorizon == 2000
\* number of Telnet clients, and time explored with them, in ms
MaxClients == 3
TelnetHorizon == 3000
\* time explored on either side of a wrap of the millis() counter, in ms
WrapWindow == 3000

----------------------------------------------------------------------------
(* Program constants *)

warmupTime == 60000
NotificationCooldown == 30000
ReadingInterval == 1000
BuzzerToggleInterval == 1000
WifiBeepInterval == 60000
WifiBeepDuration == 100
greenBlinkInterval == 5000
blueBlinkInterval == 5000
redBlinkInterval == 1000
onDuration == 100
publishInterval == 1000
calibrationDuration == 300000
WIFI_RETRY_INTERVAL == 300000
\* the wait for the connection in the offline retry, and its delay(500)
WifiConnectWait == 10000
WifiPoll == 500
\* the delays of setup() after autoConnect
SetupTail == 700
numCalibrationReadings == 300
CalibrationLedPeriod == 800
CalibrationLedOn == 300

----------------------------------------------------------------------------
(* unsigned long arithmetic *)

TwoW == 2 ^ W

\* conversion of an int to unsigned long
ToUnsigned(x) == x % TwoW

\* a - b on unsigned long
USub(a, b) == (a - b) % TwoW

\* a + b on unsigned long
UAdd(a, b) == (a + b) % TwoW

\* a * b on unsigned long
UMul(a, b) == (a * b) % TwoW

----------------------------------------------------------------------------
(* Sample buffer: addGasReading, calculateMedian *)

\* float gasDataBuffer[BUFFER_SIZE] = {0}
ZeroBuffer == [i \in 1..BUFFER_SIZE |-> 0]

\* addGasReading: shift every element one place to the left, store the new
\* reading in the last slot (the loop runs over the array's own length)
addGasReading_skipFirst(buf, gasReading) ==
    [i \in 1..Len(buf) |-> IF i = 1 THEN buf[i]
                           ELSE IF i < Len(buf) THEN buf[i + 1]
                           ELSE gasReading]

addGasReading(buf, gasReading) ==
    [i \in 1..Len(buf) |-> IF i < Len(buf) THEN buf[i + 1] ELSE gasReading]

\* insertion of one element into an ascending sequence
RECURSIVE InsertSorted(_, _)
InsertSorted(sorted, x) ==
    IF sorted = << >> THEN << x >>
    ELSE IF x <= Head(sorted) THEN << x >> \o sorted
    ELSE << Head(sorted) >> \o InsertSorted(Tail(sorted), x)

\* std::sort(temp, temp + size) on the copy
RECURSIVE SortAscending(_)
SortAscending(data) ==
    IF data = << >> THEN << >>
    ELSE InsertSorted(SortAscending(Tail(data)), Head(data))

\* calculateMedian(data, size): temp is a copy of data (memcpy), the copy
\* is sorted, and the result is
\* (size % 2 == 0) ? (temp[mid - 1] + temp[mid]) / 2.0 : temp[mid]
\* (C indices mid - 1, mid are TLA+ indices mid, mid + 1).  The value is
\* [data |-> the caller's array after the call, result |-> the returned
\* float in half units].
calculateMedian_unsorted(data) ==
    LET size == Len(data)
        mid  == size \div 2
    IN  [data   |-> data,
         result |-> IF size % 2 = 0 THEN data[mid] + data[mid + 1]
                    ELSE 2 * data[mid + 1]]

calculateMedian(data) ==
    LET size == Len(data)
        temp == SortAscending(data)
        mid  == size \div 2
    IN  [data   |-> data,
         result |-> IF size % 2 = 0 THEN temp[mid] + temp[mid + 1]
                    ELSE 2 * temp[mid + 1]]

\* calculateCalibrationAverage followed by the (int) cast of its float
\* result: -1 without readings, else sum / count truncated toward zero.
\* The readings are medians in half units and are all positive.
\* The sum is taken by halves, which keeps the evaluation shallow for the
\* 300 readings of a session.
RECURSIVE SumSeq(_)
SumSeq(q) ==
    IF q = << >> THEN 0
    ELSE IF Len(q) = 1 THEN q[1]
    ELSE SumSeq(SubSeq(q, 1, Len(q) \div 2))
            + SumSeq(SubSeq(q, Len(q) \div 2 + 1, Len(q)))

calculateCalibrationAverage_rounded(readings) ==
    IF Len(readings) = 0 THEN -1
    ELSE (SumSeq(readings) + Len(readings)) \div (2 * Len(readings))

calculateCalibrationAverage(readings) ==
    IF Len(readings) = 0 THEN -1
    ELSE SumSeq(readings) \div (2 * Len(readings))

----------------------------------------------------------------------------
(* The persisted settings: Config, loadConfig, saveConfig, setup()         *)

\* the fields of Config that saveConfig writes and loadConfig reads
StoredFields ==
    {"thresholdLimit", "thresholdDuration", "baseGasValue", "ntfyEnabled",
     "mqttEnabled", "restartCounter"}

\* Config config: a global, so zero-initialised, then given its default
\* member initialisers; mqttEnabled and ntfyEnabled have none
ConfigDefaults ==
    [thresholdLimit |-> 200, thresholdDuration |-> 10, baseGasValue |-> -1,
     ntfyEnabled |-> FALSE, mqttEnabled |-> FALSE, restartCounter |-> 0,
     mqttConfigured |-> FALSE]

\* /config.json: kind is "absent" (it cannot be opened), "malformed"
\* (deserializeJson fails) or "json"; has is the set of keys present
AbsentFile ==
    [kind |-> "absent", has |-> {}, val |-> [f \in StoredFields |-> 0]]

\* saveConfig: every field is written
FileOf(cfg) ==
    [kind |-> "json", has |-> StoredFields,
     val |-> [f \in StoredFields |-> cfg[f]]]

\* loadConfig: returns early when the file cannot be opened or parsed;
\* otherwise every field is the stored value or, when the key is missing,
\* the default written after the | operator
loadConfig(cfg, file) ==
    LET Get(f, d) == IF f \in file.has THEN file.val[f] ELSE d
    IN  IF file.kind # "json" THEN cfg
        ELSE [cfg EXCEPT !.mqttEnabled = Get("mqttEnabled", FALSE),
                         !.thresholdLimit = Get("thresholdLimit", 200),
                         !.thresholdDuration = Get("thresholdDuration", 5),
                         !.ntfyEnabled = Get("ntfyEnabled", TRUE),
                         !.baseGasValue = Get("baseGasValue", -1),
                         !.restartCounter = Get("restartCounter", 0)]

\* setup() up to "Increment restart counter and save": loadConfig, the
\* calibration reset at restartCounter >= 3, the factory reset at
\* restartCounter >= 5 (which removes the file and restarts)
SetupLoad(file, mqttConfigured) ==
    LET c1 == loadConfig([ConfigDefaults EXCEPT
                             !.mqttConfigured = mqttConfigured], file)
        c2 == IF mqttConfigured THEN c1 ELSE [c1 EXCEPT !.mqttEnabled = FALSE]
        c3 == IF c2.restartCounter >= 3
              THEN [c2 EXCEPT !.baseGasValue = -1] ELSE c2
    IN  IF c3.restartCounter >= 5
        THEN [config |-> c3, configFile |-> AbsentFile, restart |-> TRUE]
        ELSE LET c4 == [c3 EXCEPT !.restartCounter = @ + 1]
             IN  [config |-> c4, configFile |-> FileOf(c4), restart |-> FALSE]

\* the file left behind by k start-ups in a row that are cut short (power
\* cycle, reset button) after the restart counter was saved and before
\* the end of setup()
RECURSIVE InterruptedSetups(_, _, _)
InterruptedSetups(file, mqttConfigured, k) ==
    IF k = 0 THEN file
    ELSE InterruptedSetups(SetupLoad(file, mqttConfigured).configFile,
                           mqttConfigured, k - 1)

\* setup() run to its end: config and /config.json when loop() begins
\* (config.restartCounter = 0; saveConfig())
RECURSIVE SetupConfig(_, _)
SetupConfig(file, mqttConfigured) ==
    LET L == SetupLoad(file, mqttConfigured)
    IN  IF L.restart THEN SetupConfig(L.configFile, mqttConfigured)
        ELSE LET c5 == [L.config EXCEPT !.restartCounter = 0]
             IN  [config |-> c5, configFile |-> FileOf(c5)]

----------------------------------------------------------------------------
(* The steps of loop().  Each step is a function from the program state,   *)
(* held in a record S with one field per global variable, to the state     *)
(* after the step.  S.sent collects the sendNotification calls made during *)
(* the iteration.                                                          *)

\* sendNotification(isAlert): returns early when WiFi is down or
\* notifications are disabled; otherwise one HTTP POST whose outcome
\* (httpOk) is only logged.  No global variable is written.
sendNotification_dropsAlertUnlessPosted(S, isAlert, httpOk) ==
    LET attempted == S.wifi /\ S.config.ntfyEnabled
    IN  [S EXCEPT !.sent = Append(@, [isAlert   |-> isAlert,
                                      posted    |-> attempted,
                                      delivered |-> attempted /\ httpOk]),
                  !.alertState = IF attempted THEN @ ELSE FALSE]

sendNotification(S, isAlert, httpOk) ==
    LET attempted == S.wifi /\ S.config.ntfyEnabled
    IN  [S EXCEPT !.sent = Append(@, [isAlert   |-> isAlert,
                                      posted    |-> attempted,
                                      delivered |-> attempted /\ httpOk])]

\* "Accept new Telnet client": one waiting connection is taken per
\* iteration.  It becomes telnetClient when the handle is empty or its
\* connection is gone (the old one is stopped); otherwise it is accepted
\* and stopped at once.
TelnetStep_acceptAlways(S) ==
    IF S.telnetPending # << >>
    THEN [S EXCEPT !.telnetClient = Head(S.telnetPending),
                   !.telnetLive = @ \cup {Head(S.telnetPending)},
                   !.telnetPending = Tail(@),
                   !.accepted = Head(S.telnetPending)]
    ELSE S

TelnetStep(S) ==
    IF S.telnetPending # << >>
    THEN IF S.telnetClient = 0 \/ S.telnetClient \notin S.telnetLive
         THEN [S EXCEPT !.telnetClient = Head(S.telnetPending),
                        !.telnetLive = (@ \ {S.telnetClient})
                                          \cup {Head(S.telnetPending)},
                        !.telnetPending = Tail(@),
                        !.accepted = Head(S.telnetPending)]
         ELSE [S EXCEPT !.telnetPending = Tail(@),
                        !.rejected = Head(S.telnetPending)]
    ELSE S

\* Non-blocking buzzer control
BuzzerStep_onOnly(S, currentTime) ==
    IF S.alertState
    THEN IF USub(currentTime, S.lastBuzzerToggle) >= BuzzerToggleInterval
         THEN [S EXCEPT !.lastBuzzerToggle = currentTime,
                        !.buzzerActive = TRUE,
                        !.buzzerPin = TRUE,
                        !.toggled = TRUE, !.buzzAfter = TRUE]
         ELSE [S EXCEPT !.buzzAfter = S.buzzerActive]
    ELSE IF S.buzzerActive
         THEN IF USub(currentTime, S.buzzerStartTime) >= S.buzzerDuration
              THEN [S EXCEPT !.buzzerPin = FALSE, !.buzzerActive = FALSE,
                             !.buzzOff = TRUE]
              ELSE [S EXCEPT !.buzzAfter = TRUE]
         ELSE S

BuzzerStep_keepsPulse(S, currentTime) ==
    IF S.alertState
    THEN IF USub(currentTime, S.lastBuzzerToggle) >= BuzzerToggleInterval
         THEN [S EXCEPT !.lastBuzzerToggle = currentTime,
                        !.buzzerActive = ~S.buzzerActive,
                        !.buzzerPin = ~S.buzzerActive,
                        !.toggled = TRUE, !.buzzAfter = ~S.buzzerActive]
         ELSE [S EXCEPT !.buzzAfter = S.buzzerActive]
    ELSE IF S.buzzerActive
         THEN IF USub(currentTime, S.buzzerStartTime) >= BuzzerToggleInterval
              THEN [S EXCEPT !.buzzerPin = FALSE, !.buzzerActive = FALSE,
                             !.buzzOff = TRUE]
              ELSE [S EXCEPT !.buzzAfter = TRUE]
         ELSE S

BuzzerStep_pinStaysHigh(S, currentTime) ==
    IF S.alertState
    THEN IF USub(currentTime, S.lastBuzzerToggle) >= BuzzerToggleInterval
         THEN [S EXCEPT !.lastBuzzerToggle = currentTime,
                        !.buzzerActive = ~S.buzzerActive,
                        !.buzzerPin = ~S.buzzerActive,
                        !.toggled = TRUE, !.buzzAfter = ~S.buzzerActive]
         ELSE [S EXCEPT !.buzzAfter = S.buzzerActive]
    ELSE IF S.buzzerActive
         THEN IF USub(currentTime, S.buzzerStartTime) >= S.buzzerDuration
              THEN [S EXCEPT !.buzzerActive = FALSE, !.buzzOff = TRUE]
              ELSE [S EXCEPT !.buzzAfter = TRUE]
         ELSE S

BuzzerStep_alertOnly(S, currentTime) ==
    IF S.alertState
    THEN IF USub(currentTime, S.lastBuzzerToggle) >= BuzzerToggleInterval
         THEN [S EXCEPT !.lastBuzzerToggle = currentTime,
                        !.buzzerActive = ~S.buzzerActive,
                        !.buzzerPin = ~S.buzzerActive,
                        !.toggled = TRUE, !.buzzAfter = ~S.buzzerActive]
         ELSE [S EXCEPT !.buzzAfter = S.buzzerActive]
    ELSE [S EXCEPT !.buzzAfter = S.buzzerActive]

BuzzerStep(S, currentTime) ==
    IF S.alertState
    THEN IF USub(currentTime, S.lastBuzzerToggle) >= BuzzerToggleInterval
         THEN [S EXCEPT !.lastBuzzerToggle = currentTime,
                        !.buzzerActive = ~S.buzzerActive,
                        !.buzzerPin = ~S.buzzerActive,
                        !.toggled = TRUE, !.buzzAfter = ~S.buzzerActive]
         ELSE [S EXCEPT !.buzzAfter = S.buzzerActive]
    ELSE IF S.buzzerActive
         THEN IF USub(currentTime, S.buzzerStartTime) >= S.buzzerDuration
              THEN [S EXCEPT !.buzzerPin = FALSE, !.buzzerActive = FALSE,
                             !.buzzOff = TRUE]
              ELSE [S EXCEPT !.buzzAfter = TRUE]
         ELSE S

\* "If we're in offline mode (AP timed out), periodically try to reconnect
\* to WiFi": WiFi.begin(), then delay(500) in a loop until the connection
\* is there or WifiConnectWait ms have passed.  S.retryWait is how long the
\* loop runs: WiFi is back when it stops before WifiConnectWait.
WifiRetryStep(S, currentTime) ==
    IF /\ S.apModeTimedOut /\ ~S.wifi
       /\ USub(currentTime, S.lastWifiRetryTime) >= WIFI_RETRY_INTERVAL
    THEN [S EXCEPT !.wifi = S.retryWait < WifiConnectWait,
                   !.skew = @ + S.retryWait,
                   !.lastWifiRetryTime = currentTime,
                   !.retried = TRUE]
    ELSE S

\* if (config.mqttEnabled) { if (!mqttClient.connected()) reconnectMQTT(); ... }
\* the connection attempt succeeds or fails (mqttOk); it needs WiFi and a
\* non-empty MQTT configuration
MqttStep(S, mqttOk) ==
    IF S.config.mqttEnabled /\ ~S.mqtt /\ S.config.mqttConfigured
    THEN [S EXCEPT !.mqtt = mqttOk /\ S.wifi]
    ELSE S

\* Check if we need to start calibration after warmup
CalibrationStart_ignoresBaseline(S, currentTime) ==
    IF /\ USub(currentTime, S.systemStartTime) > warmupTime
       /\ ~S.calibrationRunning
    THEN [S EXCEPT !.calibrationRunning = TRUE,
                   !.calibrationStartTime = currentTime,
                   !.calibrationReadings = << >>,
                   !.started = TRUE]
    ELSE S

CalibrationStart(S, currentTime) ==
    IF /\ USub(currentTime, S.systemStartTime) > warmupTime
       /\ S.config.baseGasValue = -1
       /\ ~S.calibrationRunning
    THEN [S EXCEPT !.calibrationRunning = TRUE,
                   !.calibrationStartTime = currentTime,
                   !.calibrationReadings = << >>,
                   !.started = TRUE]
    ELSE S

\* updateCalibrationLed
updateCalibrationLed(S, currentTime) ==
    IF USub(currentTime, S.lastCalibrationLedToggle) >= CalibrationLedPeriod
    THEN [S EXCEPT !.lastCalibrationLedToggle = currentTime,
                   !.ledColor = CASE S.calibrationLedState = 0 -> "red"
                                  [] S.calibrationLedState = 1 -> "green"
                                  [] OTHER -> "blue",
                   !.calibrationLedState = IF @ = 0 THEN 1
                                           ELSE IF @ = 1 THEN 2 ELSE 0]
    ELSE IF USub(currentTime, S.lastCalibrationLedToggle) >= CalibrationLedOn
    THEN [S EXCEPT !.ledColor = "off"]
    ELSE S

\* Handle calibration process (the branch taken while calibrationRunning)
CalibrationStep_storesZero(S, currentTime, rawGasReading) ==
    LET L == [updateCalibrationLed(S, UAdd(currentTime, S.skew))
                EXCEPT !.core = TRUE, !.calRan = TRUE]
    IN  IF /\ USub(currentTime, L.calibrationStartTime) <= calibrationDuration
           /\ USub(currentTime, L.lastReadingTime) >= ReadingInterval
        THEN LET M == calculateMedian(L.gasDataBuffer)
                 medianValue == M.result
             IN  [L EXCEPT
                    !.lastReadingTime = currentTime,
                    !.calibrationReadings =
                        IF Len(@) < numCalibrationReadings
                        THEN Append(@, medianValue) ELSE @,
                    !.gasDataBuffer = addGasReading(M.data, rawGasReading),
                    !.inserted = TRUE,
                    !.raw = rawGasReading]
        ELSE IF USub(currentTime, L.calibrationStartTime) > calibrationDuration
        THEN [L EXCEPT
                !.config.baseGasValue =
                    calculateCalibrationAverage(L.calibrationReadings),
                !.configFile =
                    FileOf([L.config EXCEPT !.baseGasValue =
                        calculateCalibrationAverage(L.calibrationReadings)]),
                !.calibrationRunning = FALSE,
                !.gasDataBuffer = [i \in 1..Len(@) |-> 0],
                !.saved = TRUE]
        ELSE L

CalibrationStep_keepsBuffer(S, currentTime, rawGasReading) ==
    LET L == [updateCalibrationLed(S, UAdd(currentTime, S.skew))
                EXCEPT !.core = TRUE, !.calRan = TRUE]
    IN  IF /\ USub(currentTime, L.calibrationStartTime) <= calibrationDuration
           /\ USub(currentTime, L.lastReadingTime) >= ReadingInterval
        THEN LET M == calculateMedian(L.gasDataBuffer)
                 medianValue == M.result
             IN  [L EXCEPT
                    !.lastReadingTime = currentTime,
                    !.calibrationReadings =
                        IF Len(@) < numCalibrationReadings /\ medianValue > 0
                        THEN Append(@, medianValue) ELSE @,
                    !.gasDataBuffer = addGasReading(M.data, rawGasReading),
                    !.inserted = TRUE,
                    !.raw = rawGasReading]
        ELSE IF USub(currentTime, L.calibrationStartTime) > calibrationDuration
        THEN [L EXCEPT
                !.config.baseGasValue =
                    calculateCalibrationAverage(L.calibrationReadings),
                !.configFile =
                    FileOf([L.config EXCEPT !.baseGasValue =
                        calculateCalibrationAverage(L.calibrationReadings)]),
                !.calibrationRunning = FALSE,
                !.saved = TRUE]
        ELSE L

CalibrationStep(S, currentTime, rawGasReading) ==
    LET L == [updateCalibrationLed(S, UAdd(currentTime, S.skew))
                EXCEPT !.core = TRUE, !.calRan = TRUE]
    IN  IF /\ USub(currentTime, L.calibrationStartTime) <= calibrationDuration
           /\ USub(currentTime, L.lastReadingTime) >= ReadingInterval
        THEN LET M == calculateMedian(L.gasDataBuffer)
                 medianValue == M.result
             IN  [L EXCEPT
                    !.lastReadingTime = currentTime,
                    !.calibrationReadings =
                        IF Len(@) < numCalibrationReadings /\ medianValue > 0
                        THEN Append(@, medianValue) ELSE @,
                    !.gasDataBuffer = addGasReading(M.data, rawGasReading),
                    !.inserted = TRUE,
                    !.raw = rawGasReading]
        ELSE IF USub(currentTime, L.calibrationStartTime) > calibrationDuration
        THEN [L EXCEPT
                !.config.baseGasValue =
                    calculateCalibrationAverage(L.calibrationReadings),
                !.configFile =
                    FileOf([L.config EXCEPT !.baseGasValue =
                        calculateCalibrationAverage(L.calibrationReadings)]),
                !.calibrationRunning = FALSE,
                !.gasDataBuffer = [i \in 1..Len(@) |-> 0],
                !.saved = TRUE]
        ELSE L

----------------------------------------------------------------------------
(* updateLedStatus *)

\* first part: entering LED_ALERT while the buzzer flag is set, restoring
\* priorLedState once it is no longer set
LedAlertOverlay(S, currentTime) ==
    IF S.buzzerActive
    THEN IF S.currentLedState # "LED_ALERT"
         THEN [S EXCEPT !.priorLedState = S.currentLedState,
                        !.currentLedState = "LED_ALERT",
                        !.ledBlinkInterval = redBlinkInterval,
                        !.currentLedInterval = redBlinkInterval,
                        !.lastLedToggle = currentTime,
                        !.ledOn = TRUE,
                        !.ledColor = "red"]
         ELSE S
    ELSE IF S.currentLedState = "LED_ALERT"
         THEN LET R == [S EXCEPT !.currentLedState = S.priorLedState,
                                 !.ledOn = TRUE,
                                 !.lastLedToggle = currentTime]
              IN  IF R.currentLedState = "LED_WIFI_ONLY"
                  THEN [R EXCEPT !.currentLedInterval = greenBlinkInterval,
                                 !.ledBlinkInterval = onDuration]
                  ELSE IF R.currentLedState = "LED_MQTT_ACTIVE"
                  THEN [R EXCEPT !.currentLedInterval = blueBlinkInterval,
                                 !.ledBlinkInterval = onDuration]
                  ELSE R
         ELSE S

\* the WiFi-disconnected branch of the second part, with the once-a-minute
\* beep
LedWifiDisconnected(S, currentTime) ==
    LET D == IF S.currentLedState # "LED_WIFI_DISCONNECTED"
             THEN [S EXCEPT !.currentLedState = "LED_WIFI_DISCONNECTED",
                            !.ledOn = TRUE,
                            !.ledColor = "red"]
             ELSE S
    IN  IF USub(currentTime, D.lastWifiBeepTime) >= WifiBeepInterval
        THEN [D EXCEPT !.lastWifiBeepTime = currentTime,
                       !.buzzerStartTime = currentTime,
                       !.buzzerDuration = WifiBeepDuration,
                       !.buzzerActive = TRUE,
                       !.buzzerPin = TRUE,
                       !.beep = TRUE,
                       !.beepAlert = D.alertState]
        ELSE D

\* the MQTT branch of the second part
LedMqttActive(S, currentTime) ==
    IF S.currentLedState # "LED_MQTT_ACTIVE"
    THEN [S EXCEPT !.currentLedState = "LED_MQTT_ACTIVE",
                   !.currentLedInterval = blueBlinkInterval,
                   !.ledBlinkInterval = onDuration,
                   !.lastLedToggle = currentTime,
                   !.ledOn = TRUE,
                   !.ledColor = "blue"]
    ELSE S

\* the WiFi-only branch of the second part
LedWifiOnly_keepsMode(S, currentTime) == S

LedWifiOnly(S, currentTime) ==
    IF S.currentLedState # "LED_WIFI_ONLY"
    THEN [S EXCEPT !.currentLedState = "LED_WIFI_ONLY",
                   !.currentLedInterval = greenBlinkInterval,
                   !.ledBlinkInterval = onDuration,
                   !.lastLedToggle = currentTime,
                   !.ledOn = TRUE,
                   !.ledColor = "green"]
    ELSE S

\* second part: "Update LED state based on connectivity"
LedConnectivity_mqttFirst(S, currentTime) ==
    IF S.buzzerActive THEN S
    ELSE IF S.mqtt /\ S.config.mqttEnabled THEN LedMqttActive(S, currentTime)
    ELSE IF ~S.wifi THEN LedWifiDisconnected(S, currentTime)
    ELSE LedWifiOnly(S, currentTime)

LedConnectivity(S, currentTime) ==
    IF S.buzzerActive THEN S
    ELSE IF ~S.wifi THEN LedWifiDisconnected(S, currentTime)
    ELSE IF S.mqtt /\ S.config.mqttEnabled THEN LedMqttActive(S, currentTime)
    ELSE LedWifiOnly(S, currentTime)

\* the short-duty-cycle blink of LED_WIFI_ONLY and LED_MQTT_ACTIVE
DutyBlink(S, color, cycle) ==
    IF S.ledOn
    THEN [S EXCEPT !.ledOn = FALSE, !.ledColor = "off",
                   !.ledBlinkInterval = cycle - onDuration]
    ELSE [S EXCEPT !.ledOn = TRUE, !.ledColor = color,
                   !.ledBlinkInterval = onDuration]

\* third part: "Handle blinking based on current state"
LedBlink(S, currentTime) ==
    IF USub(currentTime, S.lastLedToggle) >= S.ledBlinkInterval
    THEN LET T == [S EXCEPT !.lastLedToggle = currentTime]
         IN  CASE T.currentLedState \in {"LED_STARTUP", "LED_ALERT"} ->
                    [T EXCEPT !.ledOn = ~T.ledOn,
                              !.ledColor = IF ~T.ledOn THEN "red" ELSE "off"]
               [] T.currentLedState = "LED_WIFI_DISCONNECTED" -> T
               [] T.currentLedState = "LED_WIFI_ONLY" ->
                    DutyBlink(T, "green", greenBlinkInterval)
               [] T.currentLedState = "LED_MQTT_ACTIVE" ->
                    DutyBlink(T, "blue", blueBlinkInterval)
    ELSE S

updateLedStatus(S, currentTime) ==
    LET U == LedBlink(LedConnectivity(LedAlertOverlay(S, currentTime),
                                      currentTime), currentTime)
    IN  [U EXCEPT !.ledRan = TRUE, !.ledBuzzer = S.buzzerActive,
                  !.ledWifi = S.wifi,
                  !.ledMqtt = S.mqtt /\ S.config.mqttEnabled]

----------------------------------------------------------------------------
(* Normal operation: the 1 Hz sensor tick *)

\* "Apply baseline offset if calibrated"
AdjustReading_noClamp(rawGasReading, baseGasValue) ==
    IF baseGasValue > 0 THEN rawGasReading - baseGasValue
    ELSE rawGasReading

AdjustReading(rawGasReading, baseGasValue) ==
    IF baseGasValue > 0
    THEN IF rawGasReading - baseGasValue < 0 THEN 0
         ELSE rawGasReading - baseGasValue
    ELSE rawGasReading

\* (unsigned long)config.thresholdDuration * 1000
DebounceMs_seconds(thresholdDuration) == ToUnsigned(thresholdDuration)

DebounceMs(thresholdDuration) == UMul(ToUnsigned(thresholdDuration), 1000)

\* above the threshold: "reset under-threshold tracking", "mark start of
\* breach"
MarkBreach_keepUnder(S, t) ==
    [S EXCEPT !.breachStart = IF @ = 0 THEN t ELSE @]

MarkBreach(S, t) ==
    [S EXCEPT !.underThresholdStart = 0,
              !.breachStart = IF @ = 0 THEN t ELSE @]

\* if (now - breachStart >= (unsigned long)config.thresholdDuration * 1000)
BreachPersisted_late(S, t) ==
    USub(t, S.breachStart) > DebounceMs(S.config.thresholdDuration)

BreachPersisted(S, t) ==
    USub(t, S.breachStart) >= DebounceMs(S.config.thresholdDuration)

\* if (lastNotificationTime == 0 || now - lastNotificationTime >= 30000)
CooldownElapsed_always(S, t) == TRUE

CooldownElapsed(S, t) ==
    \/ S.lastNotificationTime = 0
    \/ USub(t, S.lastNotificationTime) >= NotificationCooldown

\* at or below the threshold: "start under-threshold timer"
MarkUnder(S, t) ==
    [S EXCEPT !.underThresholdStart = IF @ = 0 THEN t ELSE @]

\* if (now - underThresholdStart >= (unsigned long)config.thresholdDuration * 1000)
UnderPersisted(S, t) ==
    USub(t, S.underThresholdStart) >= DebounceMs(S.config.thresholdDuration)

\* breachStart = 0; underThresholdStart = 0; lastNotificationTime = 0;
ResetTimers_keepNotification(S) ==
    [S EXCEPT !.breachStart = 0, !.underThresholdStart = 0]

ResetTimers(S) ==
    [S EXCEPT !.breachStart = 0, !.underThresholdStart = 0,
              !.lastNotificationTime = 0]

\* "Check threshold breach": the threshold/alert machine, run once per tick
ThresholdTick_clearedAlways(S, t, gasReading, httpOk) ==
    IF gasReading > S.config.thresholdLimit
    THEN LET A == MarkBreach(S, t)
         IN  IF BreachPersisted(A, t)
             THEN LET B == [A EXCEPT !.alertState = TRUE]
                  IN  IF CooldownElapsed(B, t)
                      THEN [sendNotification(B, TRUE, httpOk)
                                EXCEPT !.lastNotificationTime = t]
                      ELSE B
             ELSE A
    ELSE LET A == MarkUnder(S, t)
         IN  IF UnderPersisted(A, t)
             THEN ResetTimers([sendNotification(A, FALSE, httpOk)
                                  EXCEPT !.alertState = FALSE])
             ELSE A

ThresholdTick_silentRaise(S, t, gasReading, httpOk) ==
    IF gasReading > S.config.thresholdLimit
    THEN LET A == MarkBreach(S, t)
         IN  IF BreachPersisted(A, t)
             THEN LET B == [A EXCEPT !.alertState = TRUE]
                  IN  IF CooldownElapsed(B, t) /\ S.alertState
                      THEN [sendNotification(B, TRUE, httpOk)
                                EXCEPT !.lastNotificationTime = t]
                      ELSE B
             ELSE A
    ELSE LET A == MarkUnder(S, t)
         IN  IF UnderPersisted(A, t)
             THEN LET B == IF A.breachStart # 0
                           THEN [sendNotification(A, FALSE, httpOk)
                                    EXCEPT !.alertState = FALSE]
                           ELSE A
                  IN  ResetTimers(B)
             ELSE A

ThresholdTick_stampsOnBreach(S, t, gasReading, httpOk) ==
    IF gasReading > S.config.thresholdLimit
    THEN LET A == MarkBreach(S, t)
         IN  IF BreachPersisted(A, t)
             THEN LET B == [A EXCEPT !.alertState = TRUE]
                  IN  IF CooldownElapsed(B, t)
                      THEN [sendNotification(B, TRUE, httpOk)
                                EXCEPT !.lastNotificationTime = t]
                      ELSE B
             ELSE [A EXCEPT !.lastNotificationTime = t]
    ELSE LET A == MarkUnder(S, t)
         IN  IF UnderPersisted(A, t)
             THEN LET B == IF A.breachStart # 0
                           THEN [sendNotification(A, FALSE, httpOk)
                                    EXCEPT !.alertState = FALSE]
                           ELSE A
                  IN  ResetTimers(B)
             ELSE A

ThresholdTick(S, t, gasReading, httpOk) ==
    IF gasReading > S.config.thresholdLimit
    THEN LET A == MarkBreach(S, t)
         IN  IF BreachPersisted(A, t)
             THEN LET B == [A EXCEPT !.alertState = TRUE]
                  IN  IF CooldownElapsed(B, t)
                      THEN [sendNotification(B, TRUE, httpOk)
                                EXCEPT !.lastNotificationTime = t]
                      ELSE B
             ELSE A
    ELSE LET A == MarkUnder(S, t)
         IN  IF UnderPersisted(A, t)
             THEN LET B == IF A.breachStart # 0
                           THEN [sendNotification(A, FALSE, httpOk)
                                    EXCEPT !.alertState = FALSE]
                           ELSE A
                  IN  ResetTimers(B)
             ELSE A

\* "Publish median value every 1 second": publishMQTTData reconnects the
\* broker when needed (mqttOk) and publishes only when connected
PublishStep(S, t, mqttOk) ==
    IF USub(t, S.lastPublishTime) >= publishInterval
    THEN LET M == calculateMedian(S.gasDataBuffer)
             P == [S EXCEPT !.gasDataBuffer = M.data]
         IN  IF USub(t, P.systemStartTime) > 10000
             THEN LET connected == P.config.mqttConfigured
                                   /\ (P.mqtt \/ (mqttOk /\ P.wifi))
                  IN  [P EXCEPT !.lastPublishTime = t,
                                !.mqtt = IF P.config.mqttConfigured
                                         THEN connected ELSE @,
                                !.published =
                                    IF connected THEN M.result ELSE @]
             ELSE P
    ELSE S

\* "Normal operation after warmup"
NormalStep(S, t, rawGasReading, httpOk, mqttOk) ==
    LET U == [updateLedStatus(S, t) EXCEPT !.core = TRUE, !.normRan = TRUE]
    IN  IF USub(t, U.lastReadingTime) >= ReadingInterval
        THEN LET gasReading == AdjustReading(rawGasReading,
                                             U.config.baseGasValue)
                 R == [U EXCEPT
                         !.lastReadingTime = t,
                         !.gasDataBuffer = addGasReading(@, gasReading),
                         !.inserted = TRUE,
                         !.ticked = TRUE,
                         !.raw = rawGasReading,
                         !.reading = gasReading,
                         !.above = gasReading > U.config.thresholdLimit]
             IN  PublishStep(ThresholdTick(R, t, gasReading, httpOk),
                             t, mqttOk)
        ELSE U

LoopBody_alwaysNormal(S, t, rawGasReading, httpOk, mqttOk) ==
    LET B == MqttStep(BuzzerStep(TelnetStep(WifiRetryStep(S, t)), t),
                      mqttOk)
        C == CalibrationStart(B, t)
    IN  NormalStep(IF C.calibrationRunning
                   THEN CalibrationStep(C, t, rawGasReading) ELSE C,
                   UAdd(t, C.skew), rawGasReading, httpOk, mqttOk)

\* one iteration of loop(): currentTime = millis() = t at its top, and
\* now = millis() = t + S.skew after the MQTT block, S.skew being the time
\* reconnectMQTT() kept the loop waiting
LoopBody(S, t, rawGasReading, httpOk, mqttOk) ==
    LET B == MqttStep(BuzzerStep(TelnetStep(WifiRetryStep(S, t)), t),
                      mqttOk)
        C == CalibrationStart(B, t)
    IN  IF C.calibrationRunning
        THEN CalibrationStep(C, t, rawGasReading)
        ELSE IF USub(t, C.systemStartTime) > warmupTime
        THEN NormalStep(C, UAdd(t, C.skew), rawGasReading, httpOk, mqttOk)
        ELSE C

----------------------------------------------------------------------------
(* Inputs explored *)

\* values of analogRead(gasSensorPin)
RawReadings == {100, 200}

\* millis() at the end of setup()
StartTime == 2000

\* the configuration loadConfig leaves behind: a calibrated device
\* constant values of analogRead(gasSensorPin) during a calibration
SensorValues == {0, 1, 100, 1023}

\* values of baseGasValue found in the configuration file
Baselines == {-2, 0, 100, 150}

\* values stored in /config.json
FileValues ==
    {[thresholdLimit |-> 50, thresholdDuration |-> 2, baseGasValue |-> 100,
      ntfyEnabled |-> TRUE, mqttEnabled |-> FALSE, restartCounter |-> 0],
     [thresholdLimit |-> 300, thresholdDuration |-> 20, baseGasValue |-> 150,
      ntfyEnabled |-> FALSE, mqttEnabled |-> TRUE, restartCounter |-> 3]}

LoadedConfig ==
    [thresholdLimit |-> 50, thresholdDuration |-> 2, baseGasValue |-> 100,
     ntfyEnabled |-> TRUE, mqttEnabled |-> FALSE, restartCounter |-> 0,
     mqttConfigured |-> TRUE]

----------------------------------------------------------------------------
(* History variables *)

NoStep ==
    [ticked |-> FALSE, reading |-> -1, above |-> FALSE, sent |-> << >>,
     ledRan |-> FALSE, ledWifi |-> FALSE, ledMqtt |-> FALSE,
     inserted |-> FALSE, saved |-> FALSE, published |-> -1,
     raw |-> -1, beep |-> FALSE, beepAlert |-> FALSE, core |-> FALSE,
     looped |-> FALSE, accepted |-> 0, rejected |-> 0,
     telnetBefore |-> 0, liveBefore |-> {},
     alertBefore |-> FALSE, ledBefore |-> "none", rose |-> FALSE,
     fell |-> FALSE, prevAlertNotify |-> -1, restoreMode |-> "none",
     started |-> FALSE, calRan |-> FALSE, normRan |-> FALSE,
     ledBuzzer |-> FALSE, insertGap |-> -1,
     calBefore |-> FALSE, baseBefore |-> 0, breachBefore |-> 0,
     underBefore |-> 0, notifBefore |-> 0, readingsBefore |-> << >>,
     bufBefore |-> << >>, sinceStart |-> 0, stampBefore |-> 0,
     toggled |-> FALSE, buzzOff |-> FALSE, buzzAfter |-> FALSE,
     retried |-> FALSE, skew |-> 0, buzzerBefore |-> FALSE,
     buzzDue |-> FALSE, leftoverBefore |-> FALSE]

NoHist ==
    [saves |-> 0, lastTick |-> -1, runLen |-> 0, clearRun |-> 0, clearedInRun |-> 0,
     lastBelowTick |-> -1, lastAboveTick |-> -1, breachTick |-> -1,
     lastAlertNotify |-> -1, lastConnMode |-> "none",
     everAbove |-> FALSE, idleExpiries |-> 0,
     modeBeforeAlert |-> "none",
     log |-> << >>, medianOf |-> << >>, medianResult |-> -1,
     twin |-> << >>, elapsed |-> 0,
     sensor |-> -1, ended |-> FALSE, restarts |-> 0, bootFile |-> AbsentFile,
     booted |-> FALSE, lastInsertAt |-> -1, sessions |-> 0, drift |-> -1,
     restored |-> 0, lastBeepAt |-> -1, beepGap |-> -1, leftover |-> FALSE]

\* the program state as a record, with the per-iteration observations reset
Cur ==
    [systemStartTime |-> systemStartTime, config |-> config,
     wifi |-> wifi, mqtt |-> mqtt,
     breachStart |-> breachStart,
     underThresholdStart |-> underThresholdStart,
     lastNotificationTime |-> lastNotificationTime,
     lastReadingTime |-> lastReadingTime,
     lastPublishTime |-> lastPublishTime,
     alertState |-> alertState,
     buzzerActive |-> buzzerActive, buzzerStartTime |-> buzzerStartTime,
     buzzerDuration |-> buzzerDuration,
     lastBuzzerToggle |-> lastBuzzerToggle, buzzerPin |-> buzzerPin,
     lastWifiBeepTime |-> lastWifiBeepTime,
     currentLedState |-> currentLedState, priorLedState |-> priorLedState,
     ledOn |-> ledOn, lastLedToggle |-> lastLedToggle,
     ledBlinkInterval |-> ledBlinkInterval,
     currentLedInterval |-> currentLedInterval, ledColor |-> ledColor,
     gasDataBuffer |-> gasDataBuffer,
     calibrationRunning |-> calibrationRunning,
     calibrationStartTime |-> calibrationStartTime,
     calibrationReadings |-> calibrationReadings,
     lastCalibrationLedToggle |-> lastCalibrationLedToggle,
     calibrationLedState |-> calibrationLedState,
     telnetClient |-> telnetClient, telnetPending |-> telnetPending,
     telnetLive |-> telnetLive, configFile |-> configFile,
     apModeTimedOut |-> apModeTimedOut,
     lastWifiRetryTime |-> lastWifiRetryTime,
     accepted |-> 0, rejected |-> 0,
     ticked |-> FALSE, reading |-> -1, above |-> FALSE, sent |-> << >>,
     ledRan |-> FALSE, ledWifi |-> FALSE, ledMqtt |-> FALSE,
     inserted |-> FALSE, saved |-> FALSE, published |-> -1,
     raw |-> -1, beep |-> FALSE, beepAlert |-> FALSE, core |-> FALSE,
     started |-> FALSE, calRan |-> FALSE, normRan |-> FALSE,
     ledBuzzer |-> FALSE, skew |-> 0,
     toggled |-> FALSE, buzzOff |-> FALSE, buzzAfter |-> FALSE,
     retried |-> FALSE, retryWait |-> WifiConnectWait]

\* a program state record with the per-iteration observations reset
ResetObs(S) ==
    [S EXCEPT !.ticked = FALSE, !.reading = -1, !.above = FALSE,
              !.sent = << >>, !.ledRan = FALSE, !.ledWifi = FALSE,
              !.ledMqtt = FALSE, !.inserted = FALSE, !.saved = FALSE,
              !.published = -1, !.raw = -1, !.beep = FALSE,
              !.beepAlert = FALSE, !.core = FALSE,
              !.accepted = 0, !.rejected = 0,
              !.started = FALSE, !.calRan = FALSE, !.normRan = FALSE,
              !.ledBuzzer = FALSE, !.skew = 0,
              !.toggled = FALSE, !.buzzOff = FALSE, !.buzzAfter = FALSE,
              !.retried = FALSE, !.retryWait = WifiConnectWait]

\* number of notifications of one kind among the sendNotification calls
CountSent(sent, isAlert) ==
    Cardinality({i \in 1..Len(sent) : sent[i].isAlert = isAlert})

\* what the iteration that produced R at time t did
Observe(R, t) ==
    [ticked |-> R.ticked, reading |-> R.reading, above |-> R.above,
     sent |-> R.sent, ledRan |-> R.ledRan, ledWifi |-> R.ledWifi,
     ledMqtt |-> R.ledMqtt, inserted |-> R.inserted, saved |-> R.saved,
     published |-> R.published,
     raw |-> R.raw, beep |-> R.beep, beepAlert |-> R.beepAlert,
     core |-> R.core, looped |-> TRUE,
     accepted |-> R.accepted, rejected |-> R.rejected,
     telnetBefore |-> telnetClient, liveBefore |-> telnetLive,
     alertBefore |-> alertState,
     ledBefore |-> currentLedState,
     rose |-> ~alertState /\ R.alertState,
     fell |-> alertState /\ ~R.alertState,
     prevAlertNotify |-> hist.lastAlertNotify,
     restoreMode |-> hist.modeBeforeAlert,
     started |-> R.started, calRan |-> R.calRan, normRan |-> R.normRan,
     ledBuzzer |-> R.ledBuzzer,
     insertGap |-> IF R.inserted /\ hist.lastInsertAt # -1
                   THEN hist.elapsed + USub(t, now) + R.skew
                        - hist.lastInsertAt
                   ELSE -1,
     calBefore |-> calibrationRunning,
     baseBefore |-> config.baseGasValue,
     breachBefore |-> breachStart,
     underBefore |-> underThresholdStart,
     notifBefore |-> lastNotificationTime,
     readingsBefore |-> calibrationReadings,
     bufBefore |-> gasDataBuffer,
     sinceStart |-> USub(t, calibrationStartTime),
     stampBefore |-> lastReadingTime,
     toggled |-> R.toggled, buzzOff |-> R.buzzOff, buzzAfter |-> R.buzzAfter,
     retried |-> R.retried, skew |-> R.skew,
     buzzerBefore |-> buzzerActive,
     buzzDue |-> IF alertState
                 THEN USub(t, lastBuzzerToggle) >= BuzzerToggleInterval
                 ELSE buzzerActive
                      /\ USub(t, buzzerStartTime) >= buzzerDuration,
     leftoverBefore |-> hist.leftover]

\* the observations carried from one iteration to the next
Track(R, t) ==
    LET spaced == hist.lastTick # -1 /\ USub(t, hist.lastTick) = 1000
        timersCleared == /\ R.ticked /\ ~R.above
                         /\ R.breachStart = 0 /\ R.underThresholdStart = 0
        runLen ==
            IF ~R.ticked THEN hist.runLen
            ELSE IF ~R.above THEN 0
            ELSE IF hist.runLen > 0 /\ spaced THEN hist.runLen + 1
            ELSE IF breachStart = 0 /\ ~alertState THEN 1
            ELSE 0
        clearRun ==
            IF ~R.ticked THEN hist.clearRun
            ELSE IF R.above THEN 0
            ELSE IF hist.clearRun > 0 /\ spaced /\ alertState
            THEN hist.clearRun + 1
            ELSE IF alertState /\ underThresholdStart = 0 THEN 1
            ELSE 0
        clearedInRun ==
            IF ~R.ticked THEN hist.clearedInRun
            ELSE IF clearRun = 0 THEN 0
            ELSE (IF clearRun = 1 THEN 0 ELSE hist.clearedInRun)
                 + CountSent(R.sent, FALSE)
        lastConnMode ==
            IF R.ledRan /\ R.currentLedState # "LED_ALERT"
            THEN R.currentLedState ELSE hist.lastConnMode
    IN  [hist EXCEPT
           !.elapsed = @ + USub(t, now) + R.skew,
           !.lastInsertAt = IF R.inserted
                            THEN hist.elapsed + USub(t, now) + R.skew ELSE @,
           !.sessions = IF R.started THEN @ + 1 ELSE @,
           !.lastBeepAt = IF R.beep
                          THEN hist.elapsed + USub(t, now) + R.skew ELSE @,
           !.beepGap = IF R.beep /\ hist.lastBeepAt # -1
                       THEN hist.elapsed + USub(t, now) + R.skew
                            - hist.lastBeepAt
                       ELSE @,
           !.leftover = IF alertState /\ ~R.alertState THEN R.buzzerActive
                        ELSE @ /\ R.buzzerActive /\ ~R.alertState
                               /\ ~R.beep,
           !.restored = IF R.ledRan /\ currentLedState = "LED_ALERT"
                           /\ R.currentLedState # "LED_ALERT"
                        THEN 1 ELSE @,
           !.ended = @ \/ R.saved,
           !.lastTick = IF R.ticked THEN t ELSE @,
           !.runLen = runLen,
           !.clearRun = clearRun,
           !.clearedInRun = clearedInRun,
           !.lastBelowTick = IF R.ticked /\ ~R.above THEN t ELSE @,
           !.lastAboveTick = IF R.ticked /\ R.above THEN t ELSE @,
           !.breachTick = IF R.ticked /\ R.above /\ breachStart = 0 THEN t
                          ELSE IF timersCleared THEN -1 ELSE @,
           !.lastAlertNotify = IF CountSent(R.sent, TRUE) > 0 THEN t
                               ELSE IF timersCleared THEN -1 ELSE @,
           !.lastConnMode = lastConnMode,
           !.everAbove = @ \/ (R.ticked /\ R.above),
           !.idleExpiries = IF hist.everAbove \/ (R.ticked /\ R.above) THEN 0
                            ELSE IF timersCleared THEN @ + 1 ELSE @,
           !.modeBeforeAlert =
               IF ~alertState /\ R.alertState THEN lastConnMode
               ELSE IF alertState /\ ~R.alertState
               THEN (IF R.currentLedState = "LED_ALERT" THEN @ ELSE "none")
               ELSE IF /\ R.ledRan /\ currentLedState = "LED_ALERT"
                       /\ R.currentLedState # "LED_ALERT" /\ ~alertState
               THEN "none" ELSE @]

----------------------------------------------------------------------------
(* Initial state: the globals as their initialisers and setup() leave them *)

Initialisers ==
    /\ systemStartTime = StartTime
    /\ breachStart = 0
    /\ underThresholdStart = 0
    /\ lastNotificationTime = 0
    /\ lastReadingTime = 0
    /\ lastPublishTime = 0
    /\ alertState = FALSE
    /\ buzzerActive = FALSE
    /\ buzzerStartTime = 0
    /\ buzzerDuration = 0
    /\ lastBuzzerToggle = 0
    /\ buzzerPin = FALSE
    /\ lastWifiBeepTime = 0
    /\ currentLedState = "LED_STARTUP"
    /\ priorLedState = "LED_STARTUP"
    /\ ledOn = FALSE
    /\ lastLedToggle = 0
    /\ ledBlinkInterval = greenBlinkInterval
    /\ currentLedInterval = greenBlinkInterval
    /\ ledColor = "red"
    /\ gasDataBuffer = ZeroBuffer
    /\ calibrationRunning = FALSE
    /\ calibrationStartTime = 0
    /\ calibrationReadings = << >>
    /\ lastCalibrationLedToggle = 0
    /\ calibrationLedState = 0
    /\ telnetClient = 0
    /\ telnetPending = << >>
    /\ telnetLive = {}
    /\ step = NoStep

\* setup() found the network: autoConnect returned true
InitGlobals ==
    /\ Initialisers
    /\ apModeTimedOut = FALSE
    /\ lastWifiRetryTime = 0

\* the device at the end of setup()
Init ==
    /\ InitGlobals
    /\ hist = NoHist
    /\ now = StartTime
    /\ config = LoadedConfig
    /\ configFile = FileOf(config)
    /\ wifi \in BOOLEAN
    /\ mqtt = FALSE

\* the calibrated device once the warm-up has passed: before that, loop()
\* changes none of the globals
WarmedUp ==
    /\ InitGlobals
    /\ hist = [NoHist EXCEPT !.elapsed = warmupTime]
    /\ now = StartTime + warmupTime

----------------------------------------------------------------------------
(* Actions *)

\* the program variables take the values of the record R
Store(R) ==
    /\ systemStartTime' = R.systemStartTime
    /\ config' = R.config
    /\ wifi' = R.wifi
    /\ mqtt' = R.mqtt
    /\ breachStart' = R.breachStart
    /\ underThresholdStart' = R.underThresholdStart
    /\ lastNotificationTime' = R.lastNotificationTime
    /\ lastReadingTime' = R.lastReadingTime
    /\ lastPublishTime' = R.lastPublishTime
    /\ alertState' = R.alertState
    /\ buzzerActive' = R.buzzerActive
    /\ buzzerStartTime' = R.buzzerStartTime
    /\ buzzerDuration' = R.buzzerDuration
    /\ lastBuzzerToggle' = R.lastBuzzerToggle
    /\ buzzerPin' = R.buzzerPin
    /\ lastWifiBeepTime' = R.lastWifiBeepTime
    /\ currentLedState' = R.currentLedState
    /\ priorLedState' = R.priorLedState
    /\ ledOn' = R.ledOn
    /\ lastLedToggle' = R.lastLedToggle
    /\ ledBlinkInterval' = R.ledBlinkInterval
    /\ currentLedInterval' = R.currentLedInterval
    /\ ledColor' = R.ledColor
    /\ gasDataBuffer' = R.gasDataBuffer
    /\ calibrationRunning' = R.calibrationRunning
    /\ calibrationStartTime' = R.calibrationStartTime
    /\ calibrationReadings' = R.calibrationReadings
    /\ lastCalibrationLedToggle' = R.lastCalibrationLedToggle
    /\ calibrationLedState' = R.calibrationLedState
    /\ telnetClient' = R.telnetClient
    /\ telnetPending' = R.telnetPending
    /\ telnetLive' = R.telnetLive
    /\ configFile' = R.configFile
    /\ apModeTimedOut' = R.apModeTimedOut
    /\ lastWifiRetryTime' = R.lastWifiRetryTime

\* one iteration of loop(), dt ms after the previous one
Loop(dt, rawGasReading, httpOk, mqttOk) ==
    LET t == UAdd(now, dt)
        R == LoopBody(Cur, t, rawGasReading, httpOk, mqttOk)
    IN  /\ now' = t
        /\ Store(R)
        /\ step' = Observe(R, t)
        /\ hist' = Track(R, t)

\* one iteration of loop() in which reconnectMQTT() returns only block ms
\* after it was called: mqttClient.connect() waits for the broker
LoopBlocked(dt, block, rawGasReading, httpOk, mqttOk) ==
    LET t == UAdd(now, dt)
        R == LoopBody([Cur EXCEPT !.skew = block], t, rawGasReading,
                      httpOk, mqttOk)
    IN  /\ block > 0 =>
              (config.mqttEnabled /\ config.mqttConfigured /\ ~mqtt)
        /\ now' = UAdd(t, block)
        /\ Store(R)
        /\ step' = Observe(R, t)
        /\ hist' = Track(R, t)

\* handleSave, reached from server.handleClient() at the end of loop():
\* the submitted form replaces the threshold and notification settings;
\* disabling MQTT disconnects the broker, enabling it tries to connect
handleSave(limit, duration, ntfy, mqttEn, mqttOk) ==
    LET enabled == mqttEn /\ config.mqttConfigured
        R == [Cur EXCEPT
                !.config.thresholdLimit = limit,
                !.config.thresholdDuration = duration,
                !.config.ntfyEnabled = ntfy,
                !.config.mqttEnabled = enabled,
                !.mqtt = IF config.mqttEnabled /\ ~enabled THEN FALSE
                         ELSE IF ~config.mqttEnabled /\ enabled
                         THEN @ \/ (mqttOk /\ wifi)
                         ELSE @]
    IN  /\ R.config # config
        /\ Store([R EXCEPT !.configFile = FileOf(R.config)])
        /\ now' = now
        /\ step' = NoStep
        /\ hist' = [hist EXCEPT !.saves = @ + 1, !.runLen = 0,
                                !.clearRun = 0, !.clearedInRun = 0]

\* the globals as a restart leaves them, with the configuration B that
\* setup() produced
PowerOn(B) ==
    [Cur EXCEPT
       !.systemStartTime = StartTime, !.config = B.config,
       !.configFile = B.configFile, !.mqtt = FALSE,
       !.breachStart = 0, !.underThresholdStart = 0,
       !.lastNotificationTime = 0, !.lastReadingTime = 0,
       !.lastPublishTime = 0, !.alertState = FALSE,
       !.buzzerActive = FALSE, !.buzzerStartTime = 0, !.buzzerDuration = 0,
       !.lastBuzzerToggle = 0, !.buzzerPin = FALSE, !.lastWifiBeepTime = 0,
       !.currentLedState = "LED_STARTUP", !.priorLedState = "LED_STARTUP",
       !.ledOn = FALSE, !.lastLedToggle = 0,
       !.ledBlinkInterval = greenBlinkInterval,
       !.currentLedInterval = greenBlinkInterval, !.ledColor = "red",
       !.gasDataBuffer = ZeroBuffer,
       !.calibrationRunning = FALSE, !.calibrationStartTime = 0,
       !.calibrationReadings = << >>, !.lastCalibrationLedToggle = 0,
       !.calibrationLedState = 0,
       !.telnetClient = 0, !.telnetPending = << >>, !.telnetLive = {},
       !.apModeTimedOut = ~wifi,
       !.lastWifiRetryTime = IF wifi THEN 0 ELSE StartTime - SetupTail]

\* the device starts again from the file: RAM is lost, millis() starts
\* from 0 and setup() runs to its end.  ended tells whether a calibration
\* session has ended since the last reset-calibration command.
StartFrom(file, ended) ==
    /\ Store(PowerOn(SetupConfig(file, config.mqttConfigured)))
    /\ now' = StartTime
    /\ step' = NoStep
    /\ hist' = [NoHist EXCEPT !.sensor = hist.sensor, !.ended = ended,
                              !.saves = hist.saves,
                              !.restarts = hist.restarts + 1,
                              !.bootFile = file, !.booted = TRUE]

\* a restart (handleRestart, power cycle, watchdog): k start-ups cut short
\* inside setup(), then one that completes
Restart(k) ==
    StartFrom(InterruptedSetups(configFile, config.mqttConfigured, k),
              hist.ended)

\* handleResetCalibration: config.baseGasValue = -1; saveConfig();
\* ESP.restart()
handleResetCalibration_noRestart ==
    /\ Store([Cur EXCEPT
                 !.config.baseGasValue = -1,
                 !.configFile = FileOf([config EXCEPT !.baseGasValue = -1])])
    /\ now' = now
    /\ step' = NoStep
    /\ hist' = [hist EXCEPT !.restarts = @ + 1]

handleResetCalibration ==
    StartFrom(FileOf([config EXCEPT !.baseGasValue = -1]), FALSE)

\* a Telnet client connects to port 23 and waits to be accepted
TelnetConnect(c) ==
    /\ c \notin telnetLive
    /\ \A i \in 1..Len(telnetPending) : telnetPending[i] # c
    /\ telnetPending' = Append(telnetPending, c)
    /\ step' = NoStep
    /\ UNCHANGED << now, apModeTimedOut, lastWifiRetryTime, systemStartTime, config, wifi, mqtt,
                    breachStart, underThresholdStart, lastNotificationTime,
                    lastReadingTime, lastPublishTime, alertState,
                    buzzerActive, buzzerStartTime, buzzerDuration,
                    lastBuzzerToggle, buzzerPin, lastWifiBeepTime,
                    currentLedState, priorLedState, ledOn, lastLedToggle,
                    ledBlinkInterval, currentLedInterval, ledColor,
                    gasDataBuffer, calibrationRunning, calibrationStartTime,
                    calibrationReadings, lastCalibrationLedToggle,
                    calibrationLedState, telnetClient, telnetLive,
                    configFile, hist >>

\* the connected Telnet client closes its connection
TelnetHangup(c) ==
    /\ c \in telnetLive
    /\ telnetLive' = telnetLive \ {c}
    /\ step' = NoStep
    /\ UNCHANGED << now, apModeTimedOut, lastWifiRetryTime, systemStartTime, config, wifi, mqtt,
                    breachStart, underThresholdStart, lastNotificationTime,
                    lastReadingTime, lastPublishTime, alertState,
                    buzzerActive, buzzerStartTime, buzzerDuration,
                    lastBuzzerToggle, buzzerPin, lastWifiBeepTime,
                    currentLedState, priorLedState, ledOn, lastLedToggle,
                    ledBlinkInterval, currentLedInterval, ledColor,
                    gasDataBuffer, calibrationRunning, calibrationStartTime,
                    calibrationReadings, lastCalibrationLedToggle,
                    calibrationLedState, telnetClient, telnetPending,
                    configFile, hist >>

\* the access point appears or disappears
WifiChange ==
    /\ wifi' = ~wifi
    /\ step' = NoStep
    /\ UNCHANGED << now, apModeTimedOut, lastWifiRetryTime, systemStartTime, config, mqtt,
                    breachStart, underThresholdStart, lastNotificationTime,
                    lastReadingTime, lastPublishTime, alertState,
                    buzzerActive, buzzerStartTime, buzzerDuration,
                    lastBuzzerToggle, buzzerPin, lastWifiBeepTime,
                    currentLedState, priorLedState, ledOn, lastLedToggle,
                    ledBlinkInterval, currentLedInterval, ledColor,
                    gasDataBuffer, calibrationRunning, calibrationStartTime,
                    calibrationReadings, lastCalibrationLedToggle,
                    calibrationLedState, telnetClient, telnetPending,
                    telnetLive, configFile, hist >>

\* the broker connection is lost
MqttDrop ==
    /\ mqtt
    /\ mqtt' = FALSE
    /\ step' = NoStep
    /\ UNCHANGED << now, apModeTimedOut, lastWifiRetryTime, systemStartTime, config, wifi,
                    breachStart, underThresholdStart, lastNotificationTime,
                    lastReadingTime, lastPublishTime, alertState,
                    buzzerActive, buzzerStartTime, buzzerDuration,
                    lastBuzzerToggle, buzzerPin, lastWifiBeepTime,
                    currentLedState, priorLedState, ledOn, lastLedToggle,
                    ledBlinkInterval, currentLedInterval, ledColor,
                    gasDataBuffer, calibrationRunning, calibrationStartTime,
                    calibrationReadings, lastCalibrationLedToggle,
                    calibrationLedState, telnetClient, telnetPending,
                    telnetLive, configFile, hist >>

\* The threshold machine: a calibrated device with WiFi up, loop()
\* iterations 500 or 1000 ms apart, and the thresholds edited on /save
InitAlert ==
    /\ WarmedUp
    /\ config \in {[LoadedConfig EXCEPT !.thresholdDuration = d] : d \in {0, 2}}
    /\ configFile = FileOf(config)
    /\ wifi = TRUE
    /\ mqtt = FALSE

LoopAlert ==
    \E dt \in {500, 1000}, raw \in RawReadings, httpOk \in BOOLEAN :
        /\ now + dt <= StartTime + warmupTime + AlertHorizon
        /\ Loop(dt, raw, httpOk, FALSE)

SaveAlert ==
    \E limit \in {50, 100}, duration \in {3} :
        /\ hist.saves < MaxSaves
        /\ handleSave(limit, duration, TRUE, FALSE, FALSE)

NextAlert == LoopAlert \/ SaveAlert

SpecAlert == InitAlert /\ [][NextAlert]_vars

\* The notification cooldown: the same device followed for longer than
\* the cooldown, with iterations 1000 ms apart or delayed by 15 s
InitCooldown ==
    /\ WarmedUp
    /\ config = LoadedConfig
    /\ configFile = FileOf(config)
    /\ wifi = TRUE
    /\ mqtt = FALSE

LoopCooldown ==
    \E dt \in {1000, 15000}, raw \in RawReadings :
        /\ now + dt <= StartTime + warmupTime + CooldownHorizon
        /\ Loop(dt, raw, TRUE, FALSE)

NextCooldown == LoopCooldown

SpecCooldown == InitCooldown /\ [][NextCooldown]_vars

\* The indicator: a calibrated device with a one-second debounce, whose
\* WiFi and broker connections come and go
InitLed ==
    /\ WarmedUp
    /\ config \in {[LoadedConfig EXCEPT !.thresholdDuration = 1,
                                        !.mqttEnabled = e] : e \in BOOLEAN}
    /\ configFile = FileOf(config)
    /\ wifi \in BOOLEAN
    /\ mqtt = FALSE

LoopLed ==
    \E dt \in {1000}, raw \in RawReadings, mqttOk \in BOOLEAN :
        /\ now + dt <= StartTime + warmupTime + LedHorizon
        /\ Loop(dt, raw, TRUE, mqttOk)

NextLed == LoopLed \/ WifiChange \/ MqttDrop

SpecLed == InitLed /\ [][NextLed]_vars

\* The reminder beep: a calibrated device whose readings stay below the
\* threshold and whose WiFi comes and goes, with loop() iterations 50 ms
\* or 1000 ms apart
InitBeep ==
    /\ WarmedUp
    /\ config = LoadedConfig
    /\ configFile = FileOf(config)
    /\ wifi \in BOOLEAN
    /\ mqtt = FALSE

LoopBeep ==
    \E dt \in {50, 1000} :
        /\ now + dt <= StartTime + warmupTime + BeepHorizon
        /\ Loop(dt, 100, TRUE, FALSE)

NextBeep == LoopBeep \/ WifiChange

SpecBeep == InitBeep /\ [][NextBeep]_vars

\* The reminder over a minute: the same device followed from one reminder
\* beep to the next, with iterations 1000 ms apart, or 50 ms apart while
\* the buzzer is on
InitReminder ==
    /\ WarmedUp
    /\ config = LoadedConfig
    /\ configFile = FileOf(config)
    /\ wifi \in BOOLEAN
    /\ mqtt = FALSE

LoopReminder ==
    \E dt \in {50, 1000} :
        /\ dt = 50 => buzzerActive
        /\ now + dt <= StartTime + warmupTime + ReminderHorizon
        /\ Loop(dt, 100, TRUE, FALSE)

NextReminder == LoopReminder \/ WifiChange

SpecReminder == InitReminder /\ [][NextReminder]_vars

\* The buzzer after an alert: a device whose alerts come and go and whose
\* WiFi comes and goes, with iterations 1000 ms apart, or 50 ms apart
\* while the buzzer is on without an alert
InitHush ==
    /\ WarmedUp
    /\ config \in {[LoadedConfig EXCEPT !.thresholdDuration = d] : d \in {0, 1}}
    /\ configFile = FileOf(config)
    /\ wifi \in BOOLEAN
    /\ mqtt = FALSE

LoopHush ==
    \E dt \in {50, 1000}, raw \in RawReadings :
        /\ dt = 50 => (buzzerActive /\ ~alertState)
        /\ now + dt <= StartTime + warmupTime + HushHorizon
        /\ Loop(dt, raw, TRUE, FALSE)

NextHush == LoopHush \/ WifiChange

SpecHush == InitHush /\ [][NextHush]_vars

\* Two runs side by side: the device and a twin that is given the same
\* readings at the same times but its own WiFi state, notification
\* setting and HTTP outcomes.  The twin's whole program state is carried
\* in hist.twin and stepped by the same loop().  The debounce is one
\* second, so that an alert is raised and cleared within the horizon.
InitTwin ==
    /\ InitGlobals
    /\ now = StartTime + warmupTime
    /\ config \in {[LoadedConfig EXCEPT !.thresholdDuration = 1,
                                        !.ntfyEnabled = n] : n \in BOOLEAN}
    /\ configFile = FileOf(config)
    /\ wifi \in BOOLEAN
    /\ mqtt = FALSE
    /\ hist \in {[NoHist EXCEPT !.elapsed = warmupTime,
                                !.twin = [Cur EXCEPT !.wifi = w,
                                                     !.config.ntfyEnabled = n]] :
                     w \in BOOLEAN, n \in BOOLEAN}

LoopTwin ==
    \E dt \in {1000}, raw \in RawReadings, httpOk \in BOOLEAN, twinOk \in BOOLEAN :
        LET t == UAdd(now, dt)
            R == LoopBody(Cur, t, raw, httpOk, FALSE)
            T == LoopBody(ResetObs(hist.twin), t, raw, twinOk, FALSE)
        IN  /\ now + dt <= StartTime + warmupTime + TwinHorizon
            /\ now' = t
            /\ Store(R)
            /\ step' = Observe(R, t)
            /\ hist' = [Track(R, t) EXCEPT !.twin = T]

\* the twin's access point appears or disappears
TwinWifiChange ==
    /\ hist' = [hist EXCEPT !.twin = [ResetObs(@) EXCEPT !.wifi = ~@]]
    /\ step' = NoStep
    /\ UNCHANGED progVars

NextTwin == LoopTwin \/ WifiChange \/ TwinWifiChange

SpecTwin == InitTwin /\ [][NextTwin]_vars

\* The baseline offset: devices whose stored baseline is negative, zero or
\* positive, with raw readings below, at and above the baseline
InitAdjust ==
    /\ WarmedUp
    /\ config \in {[LoadedConfig EXCEPT !.baseGasValue = b] : b \in Baselines}
    /\ configFile = FileOf(config)
    /\ wifi = TRUE
    /\ mqtt = FALSE

LoopAdjust ==
    \E dt \in {500, 1000}, raw \in {0} \cup RawReadings :
        /\ now + dt <= StartTime + warmupTime + AdjustHorizon
        /\ Loop(dt, raw, TRUE, FALSE)

NextAdjust == LoopAdjust

SpecAdjust == InitAdjust /\ [][NextAdjust]_vars

\* The millis() counter wrapping around: the calibrated device sits idle
\* with iterations 1000 ms apart until the counter is about to wrap, and is
\* then followed through the wrap and until warmupTime after the counter
\* has come back to systemStartTime
NearWrap == hist.elapsed + StartTime >= TwoW - WrapWindow

LoopIdle ==
    /\ ~NearWrap
    /\ Loop(1000, 100, TRUE, FALSE)

LoopWrap ==
    \E dt \in {500, 1000}, raw \in RawReadings :
        /\ NearWrap
        /\ hist.elapsed + dt <= TwoW + warmupTime + WrapWindow
        /\ Loop(dt, raw, TRUE, FALSE)

InitWrap ==
    /\ WarmedUp
    /\ config = LoadedConfig
    /\ configFile = FileOf(config)
    /\ wifi = TRUE
    /\ mqtt = FALSE

NextWrap == LoopIdle \/ LoopWrap

SpecWrap == InitWrap /\ [][NextWrap]_vars

\* A sensor step at millis() = 0: the device of SpecWrap with
\* thresholdDuration 0 or 2, whose iterations fall into step with the
\* counter before it wraps, so that one of them reads the clock at 0, and
\* which is followed for ZeroHorizon ms after the wrap
InitZero ==
    /\ WarmedUp
    /\ config \in {[LoadedConfig EXCEPT !.thresholdDuration = d] : d \in {0, 2}}
    /\ configFile = FileOf(config)
    /\ wifi = TRUE
    /\ mqtt = FALSE

LoopZero ==
    \E dt \in {1000, USub(0, now) % 1000}, raw \in RawReadings :
        /\ NearWrap
        /\ dt > 0
        /\ hist.elapsed + StartTime + dt <= TwoW + ZeroHorizon
        /\ Loop(dt, raw, TRUE, FALSE)

NextZero == LoopIdle \/ LoopZero

SpecZero == InitZero /\ [][NextZero]_vars

\* Calibration: a device whose baseline is unset and whose sensor returns
\* the same value on every read, followed through the warm-up, the
\* calibration session and the first ticks after it, with restarts and
\* reset-calibration commands
InitCalibration ==
    /\ InitGlobals
    /\ now = StartTime
    /\ config = [LoadedConfig EXCEPT !.baseGasValue = -1]
    /\ configFile = FileOf(config)
    /\ wifi = TRUE
    /\ mqtt = FALSE
    /\ hist \in {[NoHist EXCEPT !.sensor = c] : c \in SensorValues}

LoopCalibration ==
    \E dt \in {1000} :
        /\ now + dt <= StartTime + warmupTime + calibrationDuration
                          + CalibrationHorizon
        /\ Loop(dt, hist.sensor, TRUE, FALSE)

RestartCalibration ==
    \E k \in 0..MaxInterrupted :
        /\ hist.restarts < MaxRestarts
        /\ Restart(k)

ResetCalibration ==
    /\ hist.restarts < MaxRestarts
    /\ handleResetCalibration

NextCalibration == LoopCalibration \/ RestartCalibration \/ ResetCalibration

SpecCalibration == InitCalibration /\ [][NextCalibration]_vars

\* A reset-calibration command on a calibrated device in normal operation,
\* with alerts raised and the buzzer sounding: the device restarts, warms
\* up and calibrates again
InitRecal ==
    /\ WarmedUp
    /\ config \in {[LoadedConfig EXCEPT !.thresholdDuration = d] : d \in {0, 2}}
    /\ configFile = FileOf(config)
    /\ wifi \in BOOLEAN
    /\ mqtt = FALSE

LoopRecal ==
    \E raw \in RawReadings :
        /\ now + 1000 <= StartTime + warmupTime + RecalHorizon
        /\ Loop(1000, raw, TRUE, FALSE)

ResetRecal ==
    /\ hist.restarts < MaxRestarts
    /\ handleResetCalibration

NextRecal == LoopRecal \/ ResetRecal

SpecRecal == InitRecal /\ [][NextRecal]_vars

\* A calibration session on a sensor that reads hist.sensor until
\* hist.drift ms after the start-up and hist.sensor + 1 from then on
\* (hist.drift = -1: no drift)
DriftTimes == {-1, 100000, 250000}

InitSession ==
    /\ InitGlobals
    /\ now = StartTime
    /\ config = [LoadedConfig EXCEPT !.baseGasValue = -1]
    /\ configFile = FileOf(config)
    /\ wifi = TRUE
    /\ mqtt = FALSE
    /\ hist \in {[NoHist EXCEPT !.sensor = c, !.drift = d] :
                     c \in {0, 100}, d \in DriftTimes}

LoopSession ==
    \E dt \in {1000} :
        /\ now + dt <= StartTime + warmupTime + calibrationDuration
                          + SessionHorizon
        /\ Loop(dt,
                IF hist.drift # -1 /\ hist.elapsed + dt >= hist.drift
                THEN hist.sensor + 1 ELSE hist.sensor,
                TRUE, FALSE)

NextSession == LoopSession

SpecSession == InitSession /\ [][NextSession]_vars

\* Sampling: the first iterations after the warm-up of a device with MQTT
\* enabled, calibrated or not, whose broker may answer late, refuse the
\* connection or drop it
BlockTimes == {0, 1500}

InitSampling ==
    /\ WarmedUp
    /\ config \in {[LoadedConfig EXCEPT !.mqttEnabled = TRUE,
                                        !.baseGasValue = b] : b \in {-1, 100}}
    /\ configFile = FileOf(config)
    /\ wifi = TRUE
    /\ mqtt \in BOOLEAN

LoopSampling ==
    \E dt \in {500, 1000}, block \in BlockTimes, raw \in {100},
       mqttOk \in BOOLEAN :
        /\ now + dt + block <= StartTime + warmupTime + SamplingHorizon
        /\ LoopBlocked(dt, block, raw, TRUE, mqttOk)

NextSampling == LoopSampling \/ MqttDrop

SpecSampling == InitSampling /\ [][NextSampling]_vars

\* Normal operation without end: a calibrated device sampled every
\* LiveTick ms while millis() wraps around again and again.  The readings
\* are free and the settings may be saved during the first LiveFree ms;
\* from then on every reading is above the threshold.  hist.elapsed stops
\* counting at the end of that phase, so that the state space is finite.
\* During the first phase an iteration may also come after half that time.
LiveTick == 1024

LiveTicks == {LiveTick \div 2, LiveTick}

LiveDurations == {-1, 2}

InitLive ==
    /\ WarmedUp
    /\ config = LoadedConfig
    /\ configFile = FileOf(config)
    /\ wifi \in BOOLEAN
    /\ mqtt = FALSE

LiveSettled == hist.elapsed >= warmupTime + LiveFree

LoopLive ==
    \E raw \in RawReadings, dt \in LiveTicks :
        LET t == UAdd(now, dt)
            R == LoopBody(Cur, t, raw, TRUE, FALSE)
        IN  /\ LiveSettled => (raw = 200 /\ dt = LiveTick)
            /\ now' = t
            /\ Store(R)
            /\ step' = Observe(R, t)
            /\ hist' = [hist EXCEPT !.elapsed = IF LiveSettled THEN @
                                                ELSE @ + dt]

SaveLive ==
    \E duration \in LiveDurations :
        /\ ~LiveSettled
        /\ hist.saves < MaxSaves
        /\ handleSave(config.thresholdLimit, duration, TRUE, FALSE, FALSE)

NextLive == LoopLive \/ SaveLive

\* what every step of LoopLive, and no other step, does to now; LoopLive
\* is enabled in every state
LiveIteration == \E dt \in LiveTicks : now' = UAdd(now, dt)

\* loop() is called again and again by the Arduino core
SpecLive == InitLive /\ [][NextLive]_vars /\ WF_now(LiveIteration)

\* Start-up: setup() run on every content of /config.json, followed by
\* the first iterations of loop() and by restarts
Files ==
    {AbsentFile, [AbsentFile EXCEPT !.kind = "malformed"]}
    \cup {[kind |-> "json", has |-> h, val |-> v] :
              h \in SUBSET StoredFields, v \in FileValues}

InitBoot ==
    /\ InitGlobals
    /\ now = StartTime
    /\ wifi = TRUE
    /\ mqtt = FALSE
    /\ \E file \in Files :
          /\ config = SetupConfig(file, TRUE).config
          /\ configFile = SetupConfig(file, TRUE).configFile
          /\ hist = [NoHist EXCEPT !.bootFile = file, !.booted = TRUE]

LoopBoot ==
    \E raw \in RawReadings :
        /\ now + 1000 <= StartTime + BootHorizon
        /\ Loop(1000, raw, TRUE, FALSE)

RestartBoot ==
    \E k \in 0..MaxInterrupted :
        /\ hist.restarts < MaxRestarts
        /\ Restart(k)

NextBoot == LoopBoot \/ RestartBoot

SpecBoot == InitBoot /\ [][NextBoot]_vars

\* The device without a network: autoConnect failed in setup(), which set
\* apModeTimedOut and lastWifiRetryTime, and loop() tries to connect again
\* every WIFI_RETRY_INTERVAL.  The attempt returns after the first
\* delay(WifiPoll) when the network is back, and after WifiConnectWait when
\* it is not.
RetryWaits == {WifiPoll, WifiConnectWait}

InitOffline ==
    /\ Initialisers
    /\ apModeTimedOut = TRUE
    /\ lastWifiRetryTime = StartTime - SetupTail
    /\ hist = [NoHist EXCEPT !.elapsed = warmupTime]
    /\ now = StartTime + warmupTime
    /\ config = LoadedConfig
    /\ configFile = FileOf(config)
    /\ wifi = FALSE
    /\ mqtt = FALSE

LoopOffline ==
    \E wait \in RetryWaits :
        LET t == UAdd(now, 1000)
            R == LoopBody([Cur EXCEPT !.retryWait = wait], t, 100,
                          TRUE, FALSE)
        IN  /\ t <= StartTime + warmupTime + OfflineHorizon
            /\ wait # WifiConnectWait => R.retried
            /\ now' = UAdd(t, R.skew)
            /\ Store(R)
            /\ step' = Observe(R, t)
            /\ hist' = Track(R, t)

NextOffline == LoopOffline

SpecOffline == InitOffline /\ [][NextOffline]_vars

\* The Telnet server: clients connect and hang up while loop() runs
InitTelnet ==
    /\ WarmedUp
    /\ config = LoadedConfig
    /\ configFile = FileOf(config)
    /\ wifi = TRUE
    /\ mqtt = FALSE

LoopTelnet ==
    \E raw \in RawReadings :
        /\ now + 1000 <= StartTime + warmupTime + TelnetHorizon
        /\ Loop(1000, raw, TRUE, FALSE)

NextTelnet ==
    \/ LoopTelnet
    \/ \E c \in 1..MaxClients : TelnetConnect(c)
    \/ \E c \in 1..MaxClients : TelnetHangup(c)

SpecTelnet == InitTelnet /\ [][NextTelnet]_vars

\* The sample buffer alone: addGasReading and calculateMedian applied to
\* the zero-filled buffer with readings 1 .. BUFFER_SIZE + 1
InitBuffer ==
    /\ InitGlobals
    /\ hist = NoHist
    /\ now = StartTime
    /\ config = LoadedConfig
    /\ configFile = FileOf(config)
    /\ wifi = TRUE
    /\ mqtt = FALSE

AddReading(v) ==
    /\ Len(hist.log) < MaxInserts
    /\ gasDataBuffer' = addGasReading(gasDataBuffer, v)
    /\ hist' = [hist EXCEPT !.log = Append(@, v),
                            !.medianOf = << >>, !.medianResult = -1]
    /\ UNCHANGED << now, apModeTimedOut, lastWifiRetryTime, systemStartTime, config, wifi, mqtt,
                    breachStart, underThresholdStart, lastNotificationTime,
                    lastReadingTime, lastPublishTime, alertState,
                    buzzerActive, buzzerStartTime, buzzerDuration,
                    lastBuzzerToggle, buzzerPin, lastWifiBeepTime,
                    currentLedState, priorLedState, ledOn, lastLedToggle,
                    ledBlinkInterval, currentLedInterval, ledColor,
                    calibrationRunning, calibrationStartTime,
                    calibrationReadings, lastCalibrationLedToggle,
                    calibrationLedState, telnetClient, telnetPending,
                    telnetLive, configFile, step >>

Median ==
    /\ hist.medianOf = << >>
    /\ LET M == calculateMedian(gasDataBuffer)
       IN  /\ gasDataBuffer' = M.data
           /\ hist' = [hist EXCEPT !.medianOf = gasDataBuffer,
                                   !.medianResult = M.result]
    /\ UNCHANGED << now, apModeTimedOut, lastWifiRetryTime, systemStartTime, config, wifi, mqtt,
                    breachStart, underThresholdStart, lastNotificationTime,
                    lastReadingTime, lastPublishTime, alertState,
                    buzzerActive, buzzerStartTime, buzzerDuration,
                    lastBuzzerToggle, buzzerPin, lastWifiBeepTime,
                    currentLedState, priorLedState, ledOn, lastLedToggle,
                    ledBlinkInterval, currentLedInterval, ledColor,
                    calibrationRunning, calibrationStartTime,
                    calibrationReadings, lastCalibrationLedToggle,
                    calibrationLedState, telnetClient, telnetPending,
                    telnetLive, configFile, step >>

NextBuffer == (\E v \in 1..(BUFFER_SIZE + 1) : AddReading(v)) \/ Median

SpecBuffer == InitBuffer /\ [][NextBuffer]_vars

\* The whole device from the end of setup()
Next ==
    \/ \E dt \in {1000, 30000}, raw \in RawReadings, mqttOk \in BOOLEAN :
           /\ now + dt <= StartTime + warmupTime + LedHorizon
           /\ Loop(dt, raw, TRUE, mqttOk)
    \/ \E mqttEn \in BOOLEAN :
           /\ hist.saves < MaxSaves
           /\ handleSave(config.thresholdLimit, config.thresholdDuration,
                         TRUE, mqttEn, TRUE)
    \/ WifiChange
    \/ MqttDrop

Spec == Init /\ [][Next]_vars

----------------------------------------------------------------------------
(* Properties of the threshold/alert machine *)

\* the debounce time in ms as the claims state it
DurationMs == config.thresholdDuration * 1000

C2_NoAlertBeforeDuration ==
    (hist.runLen >= 1 /\ hist.runLen < config.thresholdDuration)
        => ~alertState

C2_Witness ==
    /\ config.thresholdDuration = 3
    /\ hist.runLen = 2
    /\ ~alertState

\* C3 as stated: alertState goes from false to true only on a tick such
\* that no tick within the preceding thresholdDuration * 1000 ms had a
\* reading at or below the threshold.
C3_EnterOnlyAfterContinuousBreach ==
    step.rose =>
        \/ hist.lastBelowTick = -1
        \/ now - hist.lastBelowTick > DurationMs

\* C3 amended: alertState goes from false to true only on a tick whose
\* reading is above the threshold and that comes at least
\* thresholdDuration * 1000 ms after the tick that set breachStart; ticks at
\* or below the threshold in between do not prevent it.
C3_EnterOnlyAfterBreachDuration ==
    step.rose =>
        /\ step.ticked /\ step.above
        /\ hist.breachTick # -1
        /\ now - hist.breachTick >= DurationMs

C3_Witness ==
    /\ step.rose
    /\ config.thresholdDuration >= 2
    /\ hist.lastBelowTick > hist.breachTick

\* C4: alertState goes from true to false only on a tick whose reading is
\* at or below the threshold and such that every tick within the preceding
\* thresholdDuration * 1000 ms was at or below it too; every tick above the
\* threshold unsets the under-threshold timer.
C4_LeaveOnlyAfterContinuousClear ==
    /\ step.fell =>
          /\ step.ticked /\ ~step.above
          /\ hist.lastAboveTick # -1
          /\ now - hist.lastAboveTick > DurationMs
    /\ (step.ticked /\ step.above) => underThresholdStart = 0

C4_Witness ==
    /\ step.fell
    /\ config.thresholdDuration >= 2
    /\ hist.lastBelowTick = now

C13_NoNotificationAtIdle ==
    ~hist.everAbove =>
        /\ ~alertState
        /\ step.sent = << >>
        /\ breachStart = 0
        /\ lastNotificationTime = 0

C13_Witness ==
    /\ ~hist.everAbove
    /\ hist.idleExpiries >= 2
    /\ config.thresholdDuration >= 2
    /\ step.ticked
    /\ underThresholdStart = 0

\* C34: in an iteration in which alertState changes from false to true
\* sendNotification(true) is called exactly once and lastNotificationTime
\* is set to the time of that iteration's sensor step.
C34_RisingEdgeNotified ==
    step.rose => /\ CountSent(step.sent, TRUE) = 1
                 /\ lastNotificationTime = now

C34_Witness ==
    /\ step.rose
    /\ alertState
    /\ CountSent(step.sent, TRUE) = 1
    /\ step.notifBefore = 0
    /\ lastNotificationTime = now

\* C35: alertState is never true while breachStart is 0 (unset), and a
\* clear (the reading at or below the limit for the debounce time) of an
\* active alert sets alertState false.
C35_AlertImpliesBreachStart ==
    /\ alertState => breachStart # 0
    /\ (step.ticked /\ step.alertBefore /\ ~step.above
          /\ underThresholdStart = 0) => ~alertState

\* C36: lastNotificationTime is 0 (unset) whenever alertState is false,
\* and the iteration that ends the alert leaves it 0.
C36_StampOnlyDuringAlert ==
    /\ lastNotificationTime # 0 => alertState
    /\ step.fell => lastNotificationTime = 0

C36_Witness ==
    /\ step.fell
    /\ step.notifBefore # 0
    /\ lastNotificationTime = 0
    /\ ~alertState

\* C14: a "cleared" notification is fired only on a tick in which
\* alertState changes from true to false.
C14_ClearedOnlyOnAlertEdge ==
    CountSent(step.sent, FALSE) > 0 => step.fell

\* C12: two runs fed the same readings at the same tick times, whatever
\* their WiFi state, notification setting and HTTP outcomes, agree on
\* alertState, breachStart, underThresholdStart and lastNotificationTime
\* after every tick.
C12_AlertIndependentOfDelivery ==
    /\ hist.twin.alertState = alertState
    /\ hist.twin.breachStart = breachStart
    /\ hist.twin.underThresholdStart = underThresholdStart
    /\ hist.twin.lastNotificationTime = lastNotificationTime

C12_Witness ==
    /\ alertState
    /\ lastNotificationTime = now
    /\ CountSent(step.sent, TRUE) = 1
    /\ step.sent[1].delivered
    /\ CountSent(hist.twin.sent, TRUE) = 1
    /\ ~hist.twin.sent[1].posted

\* the larger of two numbers
Max(a, b) == IF a >= b THEN a ELSE b

\* C19: the value stored in the sample buffer and compared with the
\* threshold on a tick is max(0, raw - baseline) when the baseline is
\* positive and the raw reading otherwise, and is never negative.
C19_AdjustedReading ==
    step.ticked =>
        /\ step.reading = IF config.baseGasValue > 0
                          THEN Max(0, step.raw - config.baseGasValue)
                          ELSE step.raw
        /\ step.reading >= 0
        /\ gasDataBuffer[BUFFER_SIZE] = step.reading
        /\ step.above = (step.reading > config.thresholdLimit)

C19_Witness ==
    /\ step.ticked
    /\ config.baseGasValue > 0
    /\ step.raw < config.baseGasValue
    /\ step.raw > 0
    /\ step.reading = 0
    /\ gasDataBuffer[BUFFER_SIZE] = 0

\* C16: once more than warmupTime has elapsed since the system start,
\* every iteration of loop() runs the calibration or the normal-operation
\* step, also after the millis() counter has wrapped.
C16_StepEnabledAfterWarmup ==
    (step.looped /\ hist.elapsed > warmupTime) => step.core

\* the same up to the moment the counter is back at systemStartTime
C16_StepEnabledUntilFullWrap ==
    (step.looped /\ hist.elapsed > warmupTime /\ hist.elapsed < TwoW)
        => step.core

C16_Witness ==
    /\ step.looped /\ step.core /\ step.ticked
    /\ now < systemStartTime
    /\ hist.elapsed < TwoW

----------------------------------------------------------------------------
(* Properties of the calibration and of the start-up *)

\* C11: with the baseline unset and a sensor that returns the same value
\* c on every read, the iteration that ends the calibration session leaves
\* baseGasValue = c and the sample buffer all zeros.
C11_CalibrationConverges ==
    step.saved =>
        /\ config.baseGasValue = hist.sensor
        /\ gasDataBuffer = ZeroBuffer

\* the same for every c >= 1
C11_CalibrationConvergesAboveZero ==
    (step.saved /\ hist.sensor >= 1) =>
        /\ config.baseGasValue = hist.sensor
        /\ configFile.val["baseGasValue"] = hist.sensor
        /\ ~calibrationRunning
        /\ gasDataBuffer = ZeroBuffer

C11_Witness ==
    /\ step.saved
    /\ hist.sensor = 1023
    /\ config.baseGasValue = 1023

\* C15: once a calibration session has ended, and until a
\* reset-calibration command, the baseline is set and no session is
\* running.
C15_BaselineStaysSet ==
    hist.ended => (config.baseGasValue # -1 /\ ~calibrationRunning)

\* the same while the sensor does not read 0 and no start-up found
\* restartCounter >= 3
C15_BaselineStaysSetWithoutRestarts ==
    (hist.ended /\ hist.sensor >= 1 /\ hist.restarts = 0)
        => (config.baseGasValue # -1 /\ ~calibrationRunning)

\* C21: a calibration session starts only on an iteration that found
\* baseGasValue = -1, more than warmupTime after the start-up, with no
\* session running; a session runs only once started, and the start leaves
\* no collected reading.
C21_SessionStartsOnlyWhenUncalibrated ==
    /\ step.started =>
          /\ step.baseBefore = -1
          /\ hist.elapsed > warmupTime
          /\ ~step.calBefore
          /\ Len(calibrationReadings) = 0
    /\ (step.looped /\ calibrationRunning /\ ~step.calBefore) => step.started

C21_Witness ==
    /\ step.started
    /\ hist.restarts = 1
    /\ calibrationRunning

\* C24: an iteration before the end of the warm-up, or one that handles a
\* calibration session, leaves breachStart, underThresholdStart,
\* lastNotificationTime and alertState as they were and sends no
\* notification.
C24_ThresholdMachineFrozen ==
    (step.looped /\ (hist.elapsed <= warmupTime \/ step.calBefore
                                                \/ step.started)) =>
        /\ breachStart = step.breachBefore
        /\ underThresholdStart = step.underBefore
        /\ lastNotificationTime = step.notifBefore
        /\ alertState = step.alertBefore
        /\ step.sent = << >>
        /\ ~step.ticked

C24_Witness ==
    /\ step.calBefore
    /\ step.inserted
    /\ step.raw > config.thresholdLimit
    /\ breachStart = 0
    /\ ~alertState

RoundedMean(q) ==
    IF Len(q) = 0 THEN -1
    ELSE CHOOSE b \in 0..1024 :
            /\ 2 * (2 * Len(q) * b) <= 2 * SumSeq(q) + 2 * Len(q)
            /\ 2 * SumSeq(q) + 2 * Len(q) < 2 * (2 * Len(q) * (b + 1))

TruncatedMean(q) ==
    IF Len(q) = 0 THEN -1
    ELSE CHOOSE b \in 0..1024 :
            /\ 2 * Len(q) * b <= SumSeq(q)
            /\ SumSeq(q) < 2 * Len(q) * (b + 1)

\* C22: the iteration that ends a session sets baseGasValue to the mean of
\* the collected readings rounded to the nearest integer, or to -1 when
\* none was collected.
C22_BaselineIsRoundedMean ==
    step.saved => config.baseGasValue = RoundedMean(step.readingsBefore)

\* the same with the mean cut to its integer part
C22_BaselineIsTruncatedMean ==
    step.saved => config.baseGasValue = TruncatedMean(step.readingsBefore)

C22_Witness ==
    /\ step.saved
    /\ Len(step.readingsBefore) > 200
    /\ 2 * config.baseGasValue * Len(step.readingsBefore)
           < SumSeq(step.readingsBefore)

C22_WitnessNoSample ==
    /\ step.saved
    /\ step.readingsBefore = << >>
    /\ config.baseGasValue = -1

\* C23: at most numCalibrationReadings readings are collected, each one
\* positive; a calibration iteration either leaves the collected readings
\* alone or appends the median the sample buffer had, and leaves them alone
\* once numCalibrationReadings are stored.
C23_CollectedReadings ==
    /\ Len(calibrationReadings) \in 0..numCalibrationReadings
    /\ \A i \in 1..Len(calibrationReadings) : calibrationReadings[i] > 0
    /\ step.calRan =>
          LET before == IF step.started THEN << >> ELSE step.readingsBefore
              median == calculateMedian(step.bufBefore).result
          IN  /\ \/ calibrationReadings = before
                 \/ /\ median > 0
                    /\ calibrationReadings = Append(before, median)
              /\ Len(before) = numCalibrationReadings
                    => calibrationReadings = before

C23_Witness ==
    /\ step.calRan
    /\ Len(calibrationReadings) = Len(step.readingsBefore) + 1
    /\ Len(calibrationReadings) > 250
    /\ calibrationReadings[Len(calibrationReadings)] = 2 * 101
    /\ step.raw = 101

\* C25: two consecutive insertions into the sample buffer, by the
\* calibration branch or by normal operation, are at least 1000 ms apart,
\* and no iteration runs both branches.
C25_InsertionsOneSecondApart ==
    /\ (step.inserted /\ step.insertGap # -1)
          => step.insertGap >= ReadingInterval
    /\ ~(step.calRan /\ step.normRan)

\* the values of millis() the two branches compare and store, currentTime
\* in the calibration branch and now in normal operation, are at least
\* 1000 ms apart from one insertion to the next
C25_StampsOneSecondApart ==
    /\ (step.inserted /\ step.insertGap # -1)
          => USub(lastReadingTime, step.stampBefore) >= ReadingInterval
    /\ ~(step.calRan /\ step.normRan)

\* C27: in normal operation, whatever thresholdLimit and thresholdDuration
\* were saved, if from some tick on every adjusted reading is above the
\* limit then alertState becomes true and stays true.
C27_AlertEventuallyRaised ==
    <>[](step.ticked => step.above) => <>[]alertState

\* the same for the runs whose thresholdDuration is not negative
C27_AlertRaisedUnlessNegativeDuration ==
    <>[]((step.ticked => step.above) /\ config.thresholdDuration >= 0)
        => <>[]alertState

\* a tick above the limit leaves a raised alert raised
C27_AlertKeptWhileAbove ==
    (step.ticked /\ step.above /\ step.alertBefore) => alertState

C27_Witness ==
    /\ LiveSettled
    /\ step.ticked /\ step.above
    /\ config.thresholdDuration = -1
    /\ ~alertState
    /\ breachStart # 0
    /\ USub(now, breachStart) > TwoW - 2 * LiveTick

\* the defaults the settings are documented to have
DocumentedDefaults ==
    [thresholdLimit |-> 200, thresholdDuration |-> 10, ntfyEnabled |-> TRUE,
     baseGasValue |-> -1, restartCounter |-> 0]

\* C17: after a start-up that found /config.json absent or malformed, or
\* without some field, the fields concerned have their documented defaults.
C17_DefaultsForAffectedFields ==
    (hist.booted /\ hist.elapsed = 0) =>
        \A f \in DOMAIN DocumentedDefaults :
            (hist.bootFile.kind # "json" \/ f \notin hist.bootFile.has)
                => config[f] = DocumentedDefaults[f]

\* the fields for which that holds
C17_DefaultsOfLimitBaselineCounter ==
    (hist.booted /\ hist.elapsed = 0) =>
        \A f \in {"thresholdLimit", "baseGasValue", "restartCounter"} :
            (hist.bootFile.kind # "json" \/ f \notin hist.bootFile.has)
                => config[f] = DocumentedDefaults[f]

----------------------------------------------------------------------------
(* Properties of the Telnet server *)

\* C20: at most one accepted Telnet connection is open at any time, and
\* it is telnetClient; a connection taken while the client is connected is
\* closed in the same iteration and leaves telnetClient and its connection
\* as they were; a connection becomes telnetClient only when there was no
\* connected client.
C20_SingleTelnetSession ==
    /\ Cardinality(telnetLive) <= 1
    /\ telnetLive \subseteq {telnetClient}
    /\ step.rejected # 0 =>
          /\ step.telnetBefore \in step.liveBefore
          /\ telnetClient = step.telnetBefore
          /\ telnetLive = step.liveBefore
          /\ step.rejected \notin telnetLive
    /\ step.accepted # 0 =>
          /\ step.telnetBefore \notin step.liveBefore
          /\ telnetClient = step.accepted
          /\ telnetLive = {step.accepted}

C20_Witness ==
    /\ step.rejected # 0
    /\ telnetClient # 0
    /\ telnetClient # step.rejected
    /\ telnetLive = {telnetClient}
    /\ telnetPending # << >>

----------------------------------------------------------------------------
(* Properties of the indicator *)

\* the mode the connectivity seen by updateLedStatus calls for
ConnectivityMode ==
    IF ~step.ledWifi THEN "LED_WIFI_DISCONNECTED"
    ELSE IF step.ledMqtt THEN "LED_MQTT_ACTIVE"
    ELSE "LED_WIFI_ONLY"

\* updateLedStatus ran in the last iteration and took the mode out of
\* LED_ALERT
LeftAlertMode ==
    /\ step.ledRan
    /\ step.ledBefore = "LED_ALERT"
    /\ currentLedState # "LED_ALERT"

\* C7: after every updateLedStatus that runs while the alert is active and
\* WiFi is disconnected, the mode is LED_ALERT.
C7_AlertShownWhileWifiDown ==
    (step.ledRan /\ step.alertBefore /\ alertState /\ ~step.ledWifi)
        => currentLedState = "LED_ALERT"

\* C8 as stated: the updateLedStatus that leaves LED_ALERT after the alert
\* has cleared puts the mode back to the connectivity mode that was active
\* just before the alert began.
C8_RestoresModeBeforeAlert ==
    (LeftAlertMode /\ ~step.alertBefore /\ step.restoreMode # "none")
        => currentLedState = step.restoreMode

\* C8 amended: an updateLedStatus that leaves LED_ALERT ends in the
\* connectivity mode of the connectivity at that moment (WiFi down:
\* LED_WIFI_DISCONNECTED, else broker connected and MQTT enabled:
\* LED_MQTT_ACTIVE, else LED_WIFI_ONLY), with the LED on and, for the two
\* blinking modes, a 5000 ms cycle of which onDuration is the on time.
C8_LeavesAlertToConnectivityMode ==
    LeftAlertMode =>
        /\ currentLedState = ConnectivityMode
        /\ ledOn
        /\ currentLedState \in {"LED_WIFI_ONLY", "LED_MQTT_ACTIVE"}
              => /\ ledBlinkInterval = onDuration
                 /\ currentLedInterval = 5000

\* C18: a WiFi-disconnect reminder pulse is never started while the alert
\* is active.
C18_NoReminderPulseDuringAlert ==
    step.beep => ~step.beepAlert

C8_Witness ==
    /\ LeftAlertMode
    /\ ~step.alertBefore
    /\ step.restoreMode # "none"
    /\ step.restoreMode # currentLedState

\* C28: after every updateLedStatus, the mode is LED_ALERT only if the
\* alert is active.
C28_AlertModeOnlyDuringAlert ==
    (step.ledRan /\ currentLedState = "LED_ALERT") => step.alertBefore

\* C29: after every updateLedStatus that found buzzerActive false the mode
\* is the one the connectivity calls for (WiFi down: LED_WIFI_DISCONNECTED,
\* else broker connected and MQTT enabled: LED_MQTT_ACTIVE, else
\* LED_WIFI_ONLY), and once updateLedStatus has run the mode is never
\* LED_STARTUP again.
C29_ModeFollowsConnectivity ==
    /\ (step.ledRan /\ ~step.ledBuzzer) => currentLedState = ConnectivityMode
    /\ currentLedState = "LED_STARTUP"
          => (~step.ledRan /\ hist.lastConnMode = "none")

C29_Witness ==
    /\ step.ledRan
    /\ ~step.ledBuzzer
    /\ step.ledBefore = "LED_ALERT"
    /\ currentLedState = "LED_MQTT_ACTIVE"

\* the outputs of the LED each mode allows
ModeColors(mode) ==
    CASE mode = "LED_WIFI_ONLY" -> {"green", "off"}
      [] mode = "LED_MQTT_ACTIVE" -> {"blue", "off"}
      [] mode = "LED_WIFI_DISCONNECTED" -> {"red"}
      [] mode = "LED_ALERT" -> {"red", "off"}
      [] OTHER -> {}

\* C30: after every updateLedStatus the output of the LED is one the mode
\* allows: green or off in LED_WIFI_ONLY, blue or off in LED_MQTT_ACTIVE,
\* red in LED_WIFI_DISCONNECTED, red or off in LED_ALERT.
C30_LedMatchesMode ==
    step.ledRan => ledColor \in ModeColors(currentLedState)

\* the same for the updates that did not find the mode LED_ALERT restored
\* to the mode the connectivity calls for
C30_LedMatchesModeUnlessRestored ==
    (step.ledRan /\ hist.restored = 0)
        => ledColor \in ModeColors(currentLedState)

----------------------------------------------------------------------------
(* Properties of the buzzer *)

\* C31: with no alert active, the reminder beeps start only while WiFi is
\* down and at least WifiBeepInterval apart, each for WifiBeepDuration, and
\* the buzzer step switches the buzzer off in the first iteration whose
\* currentTime is at least that duration after the start of the beep, not
\* before.
C31_ReminderSpacedAndEnded ==
    /\ hist.beepGap # -1 => hist.beepGap >= WifiBeepInterval
    /\ step.beep => (~step.ledWifi /\ buzzerDuration = WifiBeepDuration)
    /\ (step.looped /\ ~step.alertBefore /\ step.buzzerBefore)
          => /\ step.buzzOff <=> step.buzzDue
             /\ step.buzzOff => (step.beep \/ (~buzzerActive /\ ~buzzerPin))

C31_Witness ==
    /\ hist.beepGap >= WifiBeepInterval
    /\ step.buzzOff
    /\ ~buzzerActive
    /\ ~alertState

C31_WitnessStillOn ==
    /\ step.looped /\ step.buzzerBefore /\ ~step.buzzDue
    /\ buzzerActive /\ buzzerPin

\* C32: while the alert is active the buzzer step flips buzzerActive, and
\* the pin with it, in exactly the iterations whose currentTime is at
\* least BuzzerToggleInterval after the previous flip; if the alert stays
\* active for ever the buzzer is on infinitely often and off infinitely
\* often.
C32_BuzzerTogglesDuringAlert ==
    /\ []((step.looped /\ step.alertBefore) =>
            /\ step.toggled <=> step.buzzDue
            /\ step.toggled => /\ step.buzzAfter = ~step.buzzerBefore
                                /\ lastBuzzerToggle = now)
    /\ (<>[]alertState => ([]<>buzzerActive /\ []<>~buzzerActive))

C32_WitnessNotDue ==
    /\ step.looped /\ step.alertBefore /\ alertState
    /\ ~step.buzzDue /\ ~step.toggled

C32_Witness ==
    /\ LiveSettled
    /\ alertState
    /\ step.alertBefore /\ step.toggled /\ step.buzzerBefore
    /\ ~buzzerActive /\ ~buzzerPin

\* C33: no step of an iteration of loop() waits by sleeping or polling: the
\* sensor step reads the clock at the value the iteration started with, no
\* time having passed inside the iteration.
C33_NoBlockingWait == step.looped => step.skew = 0

\* C37: after setup() the buzzer pin is high exactly when buzzerActive is
\* true, whichever of the alert toggle, the expiry of a pulse and the WiFi
\* reminder wrote last.
C37_PinFollowsBuzzerActive == buzzerPin <=> buzzerActive

\* the expiry has just switched the buzzer off
C37_Witness ==
    /\ step.buzzOff /\ step.buzzerBefore
    /\ ~step.beep
    /\ ~buzzerActive /\ ~buzzerPin

\* the alert toggle has just switched it on
C37_WitnessToggle ==
    /\ step.toggled /\ ~step.buzzerBefore
    /\ buzzerActive /\ buzzerPin

\* the reminder has just switched it on
C37_WitnessReminder ==
    /\ step.beep /\ ~step.toggled
    /\ buzzerActive /\ buzzerPin

\* C38: calibrationRunning and alertState are never both true, and the
\* iteration that starts a calibration session begins with alertState and
\* buzzerActive false.
C38_NoSessionDuringAlert ==
    /\ ~(calibrationRunning /\ alertState)
    /\ step.started => (~step.alertBefore /\ ~step.buzzerBefore)

\* a session started after a reset-calibration command
C38_Witness ==
    /\ hist.restarts > 0
    /\ step.started
    /\ calibrationRunning
    /\ ~alertState /\ ~buzzerActive

\* the command can arrive while the alert is active and the buzzer on
C38_WitnessAlert ==
    /\ hist.restarts = 0
    /\ alertState /\ buzzerActive
    /\ ~calibrationRunning

\* C39: a buzzer left on by an alert that has been cleared is switched
\* off, pin and flag, by the buzzer step of the first iteration whose
\* currentTime is at least the stored buzzerDuration (never more than
\* WifiBeepDuration) after buzzerStartTime; with WiFi connected the buzzer
\* is then off at the end of that iteration, and an iteration that begins
\* with the buzzer off and no alert and finds WiFi connected leaves it off.
C39_BuzzerOffAfterClear ==
    /\ buzzerDuration <= WifiBeepDuration
    /\ (step.looped /\ step.leftoverBefore /\ ~step.alertBefore) =>
          /\ step.buzzerBefore
          /\ step.buzzOff <=> step.buzzDue
          /\ (step.buzzOff /\ step.ledWifi) => (~buzzerActive /\ ~buzzerPin)
    /\ (step.looped /\ ~step.buzzerBefore /\ ~step.alertBefore
          /\ step.ledRan /\ step.ledWifi) => (~buzzerActive /\ ~buzzerPin)

C39_Witness ==
    /\ step.leftoverBefore /\ step.buzzerBefore /\ ~step.alertBefore
    /\ step.buzzOff /\ step.ledWifi
    /\ ~buzzerActive /\ ~buzzerPin

\* a pulse stored less than buzzerDuration ago keeps the buzzer on
C39_WitnessNotDue ==
    /\ step.leftoverBefore /\ ~step.alertBefore
    /\ ~step.buzzDue
    /\ buzzerActive

\* the buzzer stays off in an iteration that raises the alert
C39_WitnessStaysOff ==
    /\ step.looped /\ ~step.buzzerBefore /\ ~step.alertBefore
    /\ step.ledWifi /\ step.rose
    /\ ~buzzerActive

----------------------------------------------------------------------------
(* Properties of the sample buffer *)

\* the last BUFFER_SIZE elements of the zero-filled buffer followed by the
\* inserted readings
LastInserted ==
    SubSeq(ZeroBuffer \o hist.log, Len(hist.log) + 1,
           Len(hist.log) + BUFFER_SIZE)

\* C9: after any sequence of addGasReading calls the buffer has
\* BUFFER_SIZE entries, the last BUFFER_SIZE values inserted in insertion
\* order, preceded by zeros while fewer have been inserted.
C9_BufferIsFifo ==
    /\ Len(gasDataBuffer) = BUFFER_SIZE
    /\ gasDataBuffer = LastInserted

C9_Witness ==
    /\ Len(hist.log) = BUFFER_SIZE + 1
    /\ Cardinality({hist.log[i] : i \in 1..Len(hist.log)}) = BUFFER_SIZE + 1
    /\ gasDataBuffer = Tail(hist.log)

\* the k-th smallest element of data, by counting
KthSmallest(data, k) ==
    CHOOSE x \in {data[i] : i \in DOMAIN data} :
        /\ Cardinality({i \in DOMAIN data : data[i] < x}) < k
        /\ Cardinality({i \in DOMAIN data : data[i] <= x}) >= k

\* twice the median of data: the middle element counted twice, or the sum
\* of the two middle elements
TwiceMedian(data) ==
    IF Len(data) % 2 = 1
    THEN 2 * KthSmallest(data, (Len(data) + 1) \div 2)
    ELSE KthSmallest(data, Len(data) \div 2)
            + KthSmallest(data, Len(data) \div 2 + 1)

\* C10: calculateMedian returns the middle element of the ascending order
\* of the buffer (the mean of the two middle ones for an even size), returns
\* the same for every permutation of the buffer, and leaves the buffer as
\* it was.
C10_MedianIsSortedMiddle ==
    hist.medianOf # << >> =>
        /\ hist.medianResult = TwiceMedian(hist.medianOf)
        /\ gasDataBuffer = hist.medianOf
        /\ \A p \in Permutations(1..BUFFER_SIZE) :
              calculateMedian([i \in 1..BUFFER_SIZE |-> hist.medianOf[p[i]]]).result
                  = hist.medianResult

C10_Witness ==
    /\ hist.medianOf # << >>
    /\ hist.medianOf[1] > hist.medianOf[BUFFER_SIZE]
    /\ hist.medianResult # 2 * hist.medianOf[BUFFER_SIZE \div 2 + 1]

====
